---------------------------- MODULE Spec2Model ----------------------------
(* Verification model of the projection / time-series engine of            *)
(* save-oceanside-sand:                                                     *)
(*   scripts/compute_timeseries.py        (transect variant, grid index)    *)
(*   scripts/create_interactive_mop_map.py (MOP variant, bounding box)      *)
(*   scripts/generate_transects.py        (segmentation of a survey file)   *)
(*                                                                          *)
(* Number representation.  The Python code computes in IEEE doubles; the    *)
(* model computes in fixed point:                                           *)
(*   - longitudes / latitudes are integers in micro-degrees (1e-6 deg),     *)
(*   - lengths in the local plane are integers in millimetres,              *)
(*   - the projection ratio t is an integer in 1/TSCALE,                    *)
(*   - values produced by round(x, 2) are integers in centimetres,          *)
(*   - elevations are integers in millimetres (round(x, 3) resolution).     *)
(*   - timestamps are integers in seconds, bearings integers in degrees.    *)
(* Every product is kept below 2^31.                                        *)
EXTENDS Integers, Sequences, FiniteSets, TLC

VARIABLES
    \* ---- harness of the pure geometry functions ----
    transect_coords,   \* argument of project_point_onto_transect
    point_lon,         \* argument: longitude of the point (micro-degrees)
    point_lat,         \* argument: latitude of the point (micro-degrees)
    seg_index,         \* segment the last point_to_segment_distance call used
    psd_result,        \* last result of point_to_segment_distance, or None
    proj_result,       \* last result of project_point_onto_transect
    proj_called,       \* TRUE once project_point_onto_transect has returned
    \* ---- the batch pipelines ----
    pc,                \* position of the run
    llh_files,         \* list returned by parse_all_llh_files
    all_points,        \* main(): flattened points, transect variant
    spatial_index,     \* main(): result of build_spatial_index
    feature_no,        \* main(): number of the transect feature processed last
    processed,         \* main(): numbers of the transect features processed so far
    ts_data,           \* main(): record returned by the last compute_transect_timeseries
    points_by_date,    \* compute_transect_timeseries: local of the last call
    timeseries_data,   \* main(): output mapping transect_id -> record
    all_points_by_date,\* MOP main(): date -> list of (lon, lat, height)
    mop_no,            \* MOP main(): number of MOP lines processed
    mop_ts,            \* MOP main(): value returned by the last compute_mop_timeseries
    mop_data,          \* MOP main(): output mapping mop_name -> record
    \* ---- segment_points_into_transects (generate_transects.py) ----
    seg_pc,                      \* position in segment_points_into_transects
    llh_file,                    \* argument: the points of the LLH file
    survey_date,                 \* argument: llh_file.survey_date, a day of January 2024
    device_name,                 \* argument: llh_file.device_name
    time_gap_threshold,          \* argument, in seconds
    direction_change_threshold,  \* argument, in degrees
    min_points_per_transect,     \* argument
    point_no,                    \* the loop variable i, as a 1-based position
    current_segment,             \* local
    previous_bearing,            \* local: a Bearing, or None
    transects,                   \* local, and the list returned
    \* ---- generate_transects.py, the script ----
    llh_files_in,                \* the list returned by parse_all_llh_files
    file_no,                     \* number of files the loop has taken
    all_transects,               \* the transects of the files processed so far
    profile_files,               \* processed/profiles: file name -> profile data
    \* ---- process_surveys.py ----
    survey_pc,                   \* position of the run of process_surveys.py
    parsed_files,                \* the list of LLH files handed to aggregate_surveys_by_date
    surveys,                     \* the dict returned by aggregate_surveys_by_date
    transects_by_date,           \* main(): date string -> transects of the date
    metadata                     \* the object generate_survey_metadata writes, or None

vars == << transect_coords, point_lon, point_lat, seg_index, psd_result,
           proj_result, proj_called, pc, llh_files, all_points, spatial_index,
           feature_no, processed, ts_data, points_by_date, timeseries_data,
           all_points_by_date, mop_no, mop_ts, mop_data, seg_pc, llh_file,
           survey_date, device_name,
           time_gap_threshold, direction_change_threshold,
           min_points_per_transect, point_no, current_segment,
           previous_bearing, transects, llh_files_in, file_no, all_transects,
           profile_files, survey_pc, parsed_files, surveys, transects_by_date,
           metadata >>

survey_vars == << survey_pc, parsed_files, surveys, transects_by_date, metadata >>

gen_vars == << llh_files_in, file_no, all_transects, profile_files >>

seg_vars == << seg_pc, llh_file, survey_date, device_name,
               time_gap_threshold, direction_change_threshold,
               min_points_per_transect, point_no, current_segment,
               previous_bearing, transects >>

geom_vars == << transect_coords, point_lon, point_lat, seg_index, psd_result,
                proj_result, proj_called >>

pipe_vars == << pc, llh_files, all_points, spatial_index, feature_no, processed, ts_data,
                points_by_date, timeseries_data, all_points_by_date, mop_no,
                mop_ts, mop_data >>

\* Python's None, and the empty dict
None == [is_none |-> TRUE]
EmptyDict == [k \in {} |-> None]

-----------------------------------------------------------------------------
(* Fixed-point arithmetic                                                   *)

Max(a, b) == IF a >= b THEN a ELSE b
Min(a, b) == IF a <= b THEN a ELSE b

\* a / b rounded to the nearest integer (b > 0)
RoundDiv(a, b) == (2 * a + b) \div (2 * b)

\* Python round(): the nearest integer, an exact tie going to the even one.
RoundHalfEven(a, b) ==
    LET q == a \div b
        r == a % b
    IN  IF 2 * r < b THEN q
        ELSE IF 2 * r > b THEN q + 1
        ELSE IF q % 2 = 0 THEN q ELSE q + 1

\* math.sqrt, to the nearest integer
RECURSIVE FloorSqrt(_)
SqrtStep(s, x) == IF (s + 1) * (s + 1) <= x THEN s + 1 ELSE s
FloorSqrt(x) == IF x < 2 THEN x ELSE SqrtStep(2 * FloorSqrt(x \div 4), x)
SqrtRound(s, x) == IF x - s * s > s THEN s + 1 ELSE s
Sqrt(x) == SqrtRound(FloorSqrt(x), x)

\* << floor(a*b/c), (a*b) mod c >> for 0 <= a <= c, b >= 0, computed bit by bit
\* of b so that no intermediate value exceeds 2*c.
RECURSIVE MulDivRem(_, _, _)
MulDivStep(h, a, odd, c) ==
    LET dbl == 2 * h[2]
        q2  == 2 * h[1] + (IF dbl >= c THEN 1 ELSE 0)
        r2  == (IF dbl >= c THEN dbl - c ELSE dbl) + (IF odd THEN a ELSE 0)
    IN  IF r2 >= c THEN << q2 + 1, r2 - c >> ELSE << q2, r2 >>
MulDivRem(a, b, c) ==
    IF b = 0 THEN << 0, 0 >>
    ELSE MulDivStep(MulDivRem(a, b \div 2, c), a, b % 2 = 1, c)
MulDivRound(qr, c) == IF 2 * qr[2] >= c THEN qr[1] + 1 ELSE qr[1]
MulDiv(a, b, c) == MulDivRound(MulDivRem(a, b, c), c)

-----------------------------------------------------------------------------
(* Local projection math: compute_timeseries.py lines 23-73                 *)

\* resolution of the projection ratio t: t = TSCALE stands for 1.0
TSCALE == 10000

\* metres per degree of the local plane
lat_to_m == 110574
lon_to_m == 92890

\* (degrees * metres-per-degree): micro-degrees in, millimetres out
ToMeters(d, m_per_deg) == RoundDiv(d * m_per_deg, 1000)

\* Great-circle metres per degree at the survey site: R * pi / 180 along a
\* meridian, and that times cos(33.19 deg) along the parallel.
HAV_LAT_M == 111195
HAV_LON_M == 93055

\* haversine_distance for the arcs of a survey (a few metres): the haversine of
\* a small arc is the Euclidean length of (R dlat, R cos(lat) dlon).
haversine_distance(lat1, lon1, lat2, lon2) ==
    LET dlat == ToMeters(lat2 - lat1, HAV_LAT_M)
        dlon == ToMeters(lon2 - lon1, HAV_LON_M)
    IN  Sqrt(dlat * dlat + dlon * dlon)

\* variant: the zero-length guard of line 56 is never taken
NeverDegenerate(seg_len_sq) == FALSE

\* seg_len_sq < 1e-10 m^2: the segment is shorter than 0.01 mm, i.e. it has
\* length 0 at millimetre resolution.
Degenerate(seg_len_sq) == seg_len_sq < 1

\* variant: t = max(0, min(2, dot / seg_len_sq))
ClampTUpTo2(dot, seg_len_sq) ==
    IF dot > seg_len_sq
    THEN TSCALE + MulDiv(Min(seg_len_sq, dot - seg_len_sq), TSCALE, seg_len_sq)
    ELSE MulDiv(Max(0, dot), TSCALE, seg_len_sq)

\* t = max(0, min(1, dot / seg_len_sq))
ClampT(dot, seg_len_sq) ==
    MulDiv(Max(0, Min(seg_len_sq, dot)), TSCALE, seg_len_sq)

point_to_segment_distance(px, py, x1, y1, x2, y2) ==
    LET px_m == ToMeters(px - x1, lon_to_m)
        py_m == ToMeters(py - y1, lat_to_m)
        x2_m == ToMeters(x2 - x1, lon_to_m)
        y2_m == ToMeters(y2 - y1, lat_to_m)
        seg_len_sq == x2_m * x2_m + y2_m * y2_m
    IN  IF Degenerate(seg_len_sq)
        THEN [dist |-> Sqrt(px_m * px_m + py_m * py_m), t |-> 0, dist_along |-> 0]
        ELSE LET t == ClampT(px_m * x2_m + py_m * y2_m, seg_len_sq)
                 proj_x == RoundDiv(t * x2_m, TSCALE)
                 proj_y == RoundDiv(t * y2_m, TSCALE)
             IN  [dist |-> Sqrt((px_m - proj_x) * (px_m - proj_x)
                                + (py_m - proj_y) * (py_m - proj_y)),
                  t |-> t,
                  dist_along |-> RoundDiv(t * Sqrt(seg_len_sq), TSCALE)]


-----------------------------------------------------------------------------
(* Polyline projector: compute_timeseries.py lines 76-110                   *)

BUFFER_METERS == 1000

\* float('inf')
INF == 2147483647

\* the loop variables before the first iteration (lines 86-88)
ProjectInit == [min_dist |-> INF, best_dist_along |-> 0, cumulative_dist |-> 0]

\* variant: best_dist_along without the length of the preceding segments
ProjectUpdateSegmentOnly(st, seg_len, r) ==
    [min_dist        |-> IF r.dist < st.min_dist THEN r.dist ELSE st.min_dist,
     best_dist_along |-> IF r.dist < st.min_dist THEN r.dist_along
                         ELSE st.best_dist_along,
     cumulative_dist |-> st.cumulative_dist + seg_len]

\* variant: "if dist <= min_dist", a later segment at equal distance wins
ProjectUpdateLastWins(st, seg_len, r) ==
    [min_dist        |-> IF r.dist <= st.min_dist THEN r.dist ELSE st.min_dist,
     best_dist_along |-> IF r.dist <= st.min_dist
                         THEN st.cumulative_dist + r.dist_along
                         ELSE st.best_dist_along,
     cumulative_dist |-> st.cumulative_dist + seg_len]

\* one iteration of the loop over segments (lines 91-106); i counts from 1
ProjectUpdate(st, seg_len, r) ==
    [min_dist        |-> IF r.dist < st.min_dist THEN r.dist ELSE st.min_dist,
     best_dist_along |-> IF r.dist < st.min_dist
                         THEN st.cumulative_dist + r.dist_along
                         ELSE st.best_dist_along,
     cumulative_dist |-> st.cumulative_dist + seg_len]

ProjectStep(st, i, lon, lat, coords) ==
    ProjectUpdate(st,
        haversine_distance(coords[i][2], coords[i][1],
                           coords[i + 1][2], coords[i + 1][1]),
        point_to_segment_distance(lon, lat, coords[i][1], coords[i][2],
                                  coords[i + 1][1], coords[i + 1][2]))

\* the loop variables after the first n iterations
RECURSIVE ProjectLoop(_, _, _, _)
ProjectLoop(n, lon, lat, coords) ==
    IF n <= 0 THEN ProjectInit
    ELSE ProjectStep(ProjectLoop(n - 1, lon, lat, coords), n, lon, lat, coords)

\* variant: "if min_dist < BUFFER_METERS", the boundary excluded
ProjectReturnStrict(st) ==
    IF st.min_dist < BUFFER_METERS
    THEN [perp_dist |-> st.min_dist, dist_along |-> st.best_dist_along]
    ELSE None

\* lines 108-110
ProjectReturn(st) ==
    IF st.min_dist <= BUFFER_METERS
    THEN [perp_dist |-> st.min_dist, dist_along |-> st.best_dist_along]
    ELSE None

project_point_onto_transect(point_lon_, point_lat_, coords) ==
    ProjectReturn(ProjectLoop(Len(coords) - 1, point_lon_, point_lat_, coords))

-----------------------------------------------------------------------------
(* Inputs of the geometry harness                                           *)

\* the survey site (Oceanside), in micro-degrees
SITE_LON == -117380000
SITE_LAT == 33190000
\* origin of the test scene: the middle of the grid cell at the site
LON0 == SITE_LON - 50
LAT0 == SITE_LAT + 50

\* half-width of the square of test points around the origin, in grid steps of
\* 3 micro-degrees
GridRadius == 6

At(dx, dy) == << LON0 + dx, LAT0 + dy >>

\* reference lines: no vertex, one vertex, coincident vertices, a straight
\* line, a line with a repeated vertex, a line that doubles back onto itself
\* (two segments at equal distance from points beside it), a bent line.
TestLines ==
    { << >>,
      << At(0, 0) >>,
      << At(0, 0), At(0, 0) >>,
      << At(0, 0), At(0, 0), At(0, 0) >>,
      << At(0, 0), At(0, 12) >>,
      << At(-9, 0), At(9, 0) >>,
      << At(0, 0), At(0, 0), At(0, 12) >>,
      << At(0, 0), At(0, 12), At(0, 0) >>,
      << At(0, -12), At(0, 0), At(12, 0) >>,
      << At(-12, -6), At(0, 0), At(12, -6) >> }

GridOffsets == { 3 * k : k \in -GridRadius .. GridRadius }

\* the script generate_transects.py has not been started
InitGenIdle ==
    /\ llh_files_in = << >>
    /\ file_no = 0
    /\ all_transects = << >>
    /\ profile_files = EmptyDict

\* process_surveys.py has not been started
InitSurveysIdle ==
    /\ survey_pc = "idle"
    /\ parsed_files = << >>
    /\ surveys = << >>
    /\ transects_by_date = << >>
    /\ metadata = None

\* segment_points_into_transects has not been called
InitSegIdle ==
    /\ seg_pc = "idle"
    /\ llh_file = << >>
    /\ survey_date = 0
    /\ device_name = ""
    /\ time_gap_threshold = 0
    /\ direction_change_threshold = 0
    /\ min_points_per_transect = 0
    /\ point_no = 0
    /\ current_segment = << >>
    /\ previous_bearing = None
    /\ transects = << >>

InitPipeIdle ==
    /\ pc = "geometry"
    /\ llh_files = << >>
    /\ all_points = << >>
    /\ spatial_index = EmptyDict
    /\ feature_no = 0
    /\ processed = {}
    /\ ts_data = None
    /\ points_by_date = EmptyDict
    /\ timeseries_data = EmptyDict
    /\ all_points_by_date = EmptyDict
    /\ mop_no = 0
    /\ mop_ts = None
    /\ mop_data = EmptyDict

InitGeom ==
    /\ transect_coords \in TestLines
    /\ \E dx \in GridOffsets, dy \in GridOffsets :
          /\ point_lon = LON0 + dx
          /\ point_lat = LAT0 + dy
    /\ seg_index = 0
    /\ psd_result = None
    /\ proj_result = None
    /\ proj_called = FALSE
    /\ InitPipeIdle
    /\ InitSegIdle
    /\ InitGenIdle
    /\ InitSurveysIdle

\* a call of point_to_segment_distance on segment i of the line
CallPointToSegment ==
    /\ \E i \in 1 .. Len(transect_coords) - 1 :
          /\ seg_index' = i
          /\ psd_result' = point_to_segment_distance(point_lon, point_lat,
                               transect_coords[i][1], transect_coords[i][2],
                               transect_coords[i + 1][1], transect_coords[i + 1][2])
    /\ UNCHANGED << transect_coords, point_lon, point_lat, proj_result, proj_called >>
    /\ UNCHANGED pipe_vars
    /\ UNCHANGED seg_vars
    /\ UNCHANGED gen_vars
    /\ UNCHANGED survey_vars

\* a call of project_point_onto_transect
CallProject ==
    /\ ~proj_called
    /\ proj_result' = project_point_onto_transect(point_lon, point_lat, transect_coords)
    /\ proj_called' = TRUE
    /\ UNCHANGED << transect_coords, point_lon, point_lat, seg_index, psd_result >>
    /\ UNCHANGED pipe_vars
    /\ UNCHANGED seg_vars
    /\ UNCHANGED gen_vars
    /\ UNCHANGED survey_vars

NextGeom == CallPointToSegment \/ CallProject

SpecGeom == InitGeom /\ [][NextGeom]_vars

-----------------------------------------------------------------------------
(* Properties of the geometry functions, checked under SpecGeom             *)

\* the segments of a line, by the index of their first vertex
Segments(coords) == 1 .. Len(coords) - 1

\* point_to_segment_distance of a point and segment i of a line
SegResult(lon, lat, coords, i) ==
    point_to_segment_distance(lon, lat, coords[i][1], coords[i][2],
                              coords[i + 1][1], coords[i + 1][2])

SegDists(lon, lat, coords) ==
    { SegResult(lon, lat, coords, i).dist : i \in Segments(coords) }

SetMin(S) == CHOOSE m \in S : \A x \in S : m <= x

\* the segments at minimum distance from the point
Minimizers(lon, lat, coords) ==
    { i \in Segments(coords) :
        SegResult(lon, lat, coords, i).dist = SetMin(SegDists(lon, lat, coords)) }

\* the length of segment i, and of the segments before segment k
SegLength(coords, i) ==
    haversine_distance(coords[i][2], coords[i][1], coords[i + 1][2], coords[i + 1][1])

RECURSIVE LengthBefore(_, _)
LengthBefore(coords, k) ==
    IF k <= 1 THEN 0 ELSE LengthBefore(coords, k - 1) + SegLength(coords, k - 1)

\* the along-line distance of the projection onto segment k
AlongVia(lon, lat, coords, k) ==
    LengthBefore(coords, k) + SegResult(lon, lat, coords, k).dist_along

\* planar length of the segment of the last point_to_segment_distance call
LastSegPlanarLength ==
    LET dx == ToMeters(transect_coords[seg_index + 1][1]
                       - transect_coords[seg_index][1], lon_to_m)
        dy == ToMeters(transect_coords[seg_index + 1][2]
                       - transect_coords[seg_index][2], lat_to_m)
    IN  Sqrt(dx * dx + dy * dy)

\* planar distance from the point to the first vertex of that segment
DistToSegStart ==
    LET dx == ToMeters(point_lon - transect_coords[seg_index][1], lon_to_m)
        dy == ToMeters(point_lat - transect_coords[seg_index][2], lat_to_m)
    IN  Sqrt(dx * dx + dy * dy)

PointIsSegStart == << point_lon, point_lat >> = transect_coords[seg_index]
PointIsSegEnd == << point_lon, point_lat >> = transect_coords[seg_index + 1]
SegIsZeroLength == transect_coords[seg_index] = transect_coords[seg_index + 1]

\* C2: an accepted point gets the minimum of the point-to-segment distances
\* over all segments, and an along-line distance that is the sum of the lengths
\* of the segments before a minimizing segment plus the clamped along-segment
\* distance on that segment.
C2_MinDistanceAndAlong ==
    (proj_called /\ proj_result # None) =>
        /\ Segments(transect_coords) # {}
        /\ proj_result.perp_dist = SetMin(SegDists(point_lon, point_lat, transect_coords))
        /\ \E k \in Minimizers(point_lon, point_lat, transect_coords) :
              proj_result.dist_along = AlongVia(point_lon, point_lat, transect_coords, k)

\* an accepted point whose only minimizing segment is not the first one and
\* whose projection lies inside that segment
C2_Witness ==
    /\ proj_called
    /\ proj_result # None
    /\ \A k \in Minimizers(point_lon, point_lat, transect_coords) :
          /\ k >= 2
          /\ LengthBefore(transect_coords, k) > 0
          /\ SegResult(point_lon, point_lat, transect_coords, k).dist_along > 0
    /\ proj_result.perp_dist > 0

\* C3: a point at exactly the same distance from several segments gets its
\* along-line distance from the first of them in vertex order.
C3_FirstSegmentWinsTies ==
    (proj_called /\ proj_result # None) =>
        LET ties == Minimizers(point_lon, point_lat, transect_coords)
            first == CHOOSE k \in ties : \A j \in ties : k <= j
        IN  proj_result.dist_along = AlongVia(point_lon, point_lat, transect_coords, first)

\* an accepted point with two minimizing segments that disagree on the
\* along-line distance
C3_Witness ==
    /\ proj_called
    /\ proj_result # None
    /\ \E k1, k2 \in Minimizers(point_lon, point_lat, transect_coords) :
          /\ k1 < k2
          /\ AlongVia(point_lon, point_lat, transect_coords, k1)
                # AlongVia(point_lon, point_lat, transect_coords, k2)

\* C4 as stated: t is in [0,1] and the along-segment distance in
\* [0, segment length]; a point on the segment start gives distance 0 and
\* t = 0, a point on the segment end gives distance 0 and t = 1.
C4_AsStated ==
    psd_result # None =>
        /\ 0 <= psd_result.t /\ psd_result.t <= TSCALE
        /\ 0 <= psd_result.dist_along /\ psd_result.dist_along <= LastSegPlanarLength
        /\ PointIsSegStart => (psd_result.dist = 0 /\ psd_result.t = 0)
        /\ PointIsSegEnd => (psd_result.dist = 0 /\ psd_result.t = TSCALE)

\* C4: t is in [0,1] and the along-segment distance in [0, segment length]; a
\* point on the segment start gives distance 0 and t = 0; a point on the end
\* of a segment that is not of zero length gives distance 0 and t = 1 (on the
\* end of a zero-length segment it gives distance 0 and t = 0).
C4_ClampedProjection ==
    psd_result # None =>
        /\ 0 <= psd_result.t /\ psd_result.t <= TSCALE
        /\ 0 <= psd_result.dist_along /\ psd_result.dist_along <= LastSegPlanarLength
        /\ PointIsSegStart => (psd_result.dist = 0 /\ psd_result.t = 0)
        /\ (PointIsSegEnd /\ ~SegIsZeroLength) =>
              (psd_result.dist = 0 /\ psd_result.t = TSCALE)
        /\ (PointIsSegEnd /\ SegIsZeroLength) =>
              (psd_result.dist = 0 /\ psd_result.t = 0)

\* a call with the point on the end vertex of a segment of positive length
C4_Witness ==
    /\ psd_result # None
    /\ PointIsSegEnd
    /\ ~SegIsZeroLength
    /\ psd_result.t = TSCALE

\* C5: on a zero-length segment the call returns (no error) the Euclidean
\* distance from the point to the start vertex, t = 0 and along-segment
\* distance 0.
C5_DegenerateSegment ==
    (psd_result # None /\ SegIsZeroLength) =>
        /\ psd_result.dist = DistToSegStart
        /\ psd_result.t = 0
        /\ psd_result.dist_along = 0

\* a call on a zero-length segment with the point away from its vertex
C5_Witness ==
    /\ psd_result # None
    /\ SegIsZeroLength
    /\ ~PointIsSegStart
    /\ psd_result.dist > 0

\* all vertices of the line coincide
AllVerticesCoincide(coords) ==
    \A i, j \in DOMAIN coords : coords[i] = coords[j]

\* C6: a line with fewer than 2 vertices, or with all its vertices coincident,
\* yields no acceptance: the projector rejects every point, also those within
\* 1 m of the coincident vertex.
C6_NoAcceptanceOnDegenerateLine ==
    (proj_called /\ (Len(transect_coords) < 2 \/ AllVerticesCoincide(transect_coords)))
        => proj_result = None


-----------------------------------------------------------------------------
(* Spatial index: compute_timeseries.py lines 113-140                       *)

\* cell_size = 0.0001 degrees
CELL_SIZE == 100
\* buffer_cells = 1
BUFFER_CELLS == 1

\* int(x / cell_size): Python's int() truncates toward zero
IntTrunc(a, b) == IF a >= 0 THEN a \div b ELSE -((-a) \div b)

CellOf(lon, lat) == << IntTrunc(lon, CELL_SIZE), IntTrunc(lat, CELL_SIZE) >>

\* index[(cell_x, cell_y)].append(point_data), in the order of all_points
build_spatial_index(points) ==
    [c \in { CellOf(points[i].lon, points[i].lat) : i \in DOMAIN points } |->
        SelectSeq(points, LAMBDA p : CellOf(p.lon, p.lat) = c)]

\* the (2*buffer_cells+1)^2 cells around the cell of (lon, lat), dx outer loop
get_nearby_cells(lon, lat) ==
    LET c == CellOf(lon, lat)
        w == 2 * BUFFER_CELLS + 1
    IN  [k \in 1 .. w * w |->
            << c[1] + ((k - 1) \div w) - BUFFER_CELLS,
               c[2] + ((k - 1) % w) - BUFFER_CELLS >>]

-----------------------------------------------------------------------------
(* The float arithmetic of an average of elevations: sum(...) / len(group)  *)
(* and round(avg, 3), compute_timeseries.py lines 201 and 204.  A float x   *)
(* of 1.0 or more is the record [k, r, d] with                              *)
(*     x = (k * 2^52 + r) / (1000 * d * 2^52) :                             *)
(* k / d is its value in thousandths as the decimal arithmetic has it, and  *)
(* r what the roundings to 53 significant bits have added, in units of      *)
(* 2^-52 thousandths over d.                                                *)

Float(k, r, d) == [k |-> k, r |-> r, d |-> d]

RECURSIVE Pow2(_)
Pow2(n) == IF n = 0 THEN 1 ELSE 2 * Pow2(n - 1)

\* 2^n modulo m, by squaring
RECURSIVE Pow2Mod(_, _)
Pow2Square(half, odd, m) == (half * half * (IF odd THEN 2 ELSE 1)) % m
Pow2Mod(n, m) == IF n = 0 THEN 1 % m ELSE Pow2Square(Pow2Mod(n \div 2, m), n % 2 = 1, m)

\* x >= 2^e
AtLeastPow2(x, e) ==
    \/ x.k > 1000 * x.d * Pow2(e)
    \/ x.k = 1000 * x.d * Pow2(e) /\ x.r >= 0

\* the binary exponent of x: 2^e <= x < 2^(e + 1); the floats of that binade
\* are the multiples of 2^(e - 52)
RECURSIVE ExponentFrom(_, _)
ExponentFrom(x, e) == IF AtLeastPow2(x, e + 1) THEN ExponentFrom(x, e + 1) ELSE e
FloatExponent(x) == ExponentFrom(x, 0)

\* (k * 2^52 + r) modulo (1000 * d * 2^h), from 2^52 = 2^(h + 3) * 2^(49 - h)
\* and 1000 = 8 * 125
FloatMod(x, h) ==
    LET q == 1000 * x.d * Pow2(h)
        m == 125 * x.d
        high == Pow2(h + 3) * (((x.k % m) * Pow2Mod(49 - h, m)) % m)
    IN  (high + (((x.r % q) + q) % q)) % q

\* the float nearest to the number x, an exact tie going to the even one
NearestFloat(x) ==
    LET e == FloatExponent(x)
        p == 1000 * x.d * Pow2(e)
        rem == FloatMod(x, e)
        odd == FloatMod(x, e + 1) >= p
        up == 2 * rem > p \/ (2 * rem = p /\ odd)
    IN  Float(x.k, IF up THEN x.r - rem + p ELSE x.r - rem, x.d)

\* the float that a decimal of k thousandths denotes, as round(height, 3)
\* returns it
FloatOfThousandths(k) == NearestFloat(Float(k, 0, 1))

\* x + y
FloatAdd(x, y) == NearestFloat(Float(x.k + y.k, x.r + y.r, 1))

\* sum(values) from values[i] on, added from the left to the total so far
RECURSIVE FloatSumFrom(_, _, _)
FloatSumFrom(total, values, i) ==
    IF i > Len(values) THEN total
    ELSE FloatSumFrom(FloatAdd(total, values[i]), values, i + 1)

\* round(x, 3), in thousandths: the nearest thousandth to the exact value of
\* the float, an exact tie going to the even one
FloatRound3(x) ==
    LET q == x.k \div x.d
        rem == x.k % x.d
    IN  IF 2 * rem < x.d THEN q
        ELSE IF 2 * rem > x.d THEN q + 1
        ELSE IF x.r > 0 THEN q + 1
        ELSE IF x.r < 0 THEN q
        ELSE IF q % 2 = 0 THEN q ELSE q + 1

\* round(sum(elevations) / len(elevations), 3) of elevations given in
\* thousandths: the sum starts from the first float (0 + x is x), and the
\* quotient is the float nearest to it
MeanElevation(elevations) ==
    LET values == [i \in DOMAIN elevations |-> FloatOfThousandths(elevations[i])]
        total == FloatSumFrom(values[1], values, 2)
    IN  FloatRound3(NearestFloat(Float(total.k, total.r, Len(elevations))))

-----------------------------------------------------------------------------
(* Date aggregator, transect variant: compute_timeseries.py lines 143-220   *)

\* round(x, 2) of a length: millimetres in, centimetres out
Round2(mm) == RoundHalfEven(mm, 10)
\* round(x, 3) of a height: tenths of a millimetre in, millimetres out
Round3(h) == RoundHalfEven(h, 10)

\* group width 0.5 m, in centimetres
GROUP_WIDTH == 50
\* minimum number of bins of a profile
MIN_BINS == 5

RECURSIVE SeqSum(_, _)
SeqSum(s, field) ==
    IF s = << >> THEN 0 ELSE s[1][field] + SeqSum(Tail(s), field)

\* the concatenation of the sequences ss[lo], ..., ss[hi]
RECURSIVE FlattenRange(_, _, _)
FlattenRange(ss, lo, hi) ==
    IF lo > hi THEN << >>
    ELSE IF lo = hi THEN ss[lo] \o << >>
    ELSE FlattenRange(ss, lo, (lo + hi) \div 2)
         \o FlattenRange(ss, ((lo + hi) \div 2) + 1, hi)

Flatten(ss) == FlattenRange(ss, 1, Len(ss))

\* the sequence 1, 2, ..., n
Indices(n) == [i \in 1 .. n |-> i]

\* the elements s[idx[1]], s[idx[2]], ...
Pick(s, idx) == [k \in 1 .. Len(idx) |-> s[idx[k]]] \o << >>

\* the cells visited by the loop of lines 160-166, duplicates included
NearbyOfCoords(coords) ==
    Flatten([i \in 1 .. Len(coords) |-> get_nearby_cells(coords[i][1], coords[i][2])])

\* variant: no set of checked cells, every visited cell is looked up
AllOccurrences(cells) == cells

\* "if cell not in checked_cells": keep the first occurrence of each cell
FirstOccurrences(cells) ==
    Pick(cells, SelectSeq(Indices(Len(cells)),
                          LAMBDA i : \A j \in 1 .. i - 1 : cells[j] # cells[i]))

\* spatial_index.get(cell, [])
IndexGet(index, cell) == IF cell \in DOMAIN index THEN index[cell] ELSE << >>

CandidatePoints(coords, index) ==
    LET cells == FirstOccurrences(NearbyOfCoords(coords))
    IN  Flatten([i \in 1 .. Len(cells) |-> IndexGet(index, cells[i])])

\* variant: the lookup index[cell] of a defaultdict(list), which stores an
\* empty list under a key it does not find
IndexAfterGetItem(index, cell) ==
    [c \in DOMAIN index \cup {cell} |-> IF c \in DOMAIN index THEN index[c] ELSE << >>]

\* the index once spatial_index.get(cell, []) has returned: dict.get does not
\* call __missing__, so the defaultdict of line 119 gains no key
IndexAfterGet(index, cell) == index

\* the index once the loop of lines 160-166 has looked up cells[k .. ]
RECURSIVE IndexAfterLookups(_, _, _)
IndexAfterLookups(index, cells, k) ==
    IF k > Len(cells) THEN index
    ELSE IndexAfterLookups(IndexAfterGet(index, cells[k]), cells, k + 1)

\* the spatial index as compute_transect_timeseries leaves it: lines 172-213
\* read the candidate tuples and write only locals
IndexAfterCompute(transect_feature, index) ==
    IndexAfterLookups(index,
                      FirstOccurrences(NearbyOfCoords(transect_feature.coordinates)), 1)

\* lines 172-183: the entry appended for an accepted point.  perp_dist is in
\* millimetres, the resolution that round(perp_dist, 3) keeps.
ProjectedEntry(point_data, result) ==
    [distance |-> Round2(result.dist_along),
     elevation |-> Round3(point_data.height),
     quality |-> point_data.quality,
     perp_distance |-> result.perp_dist,
     survey_date |-> point_data.survey_date]

\* lines 169-183: the entries of the accepted candidates, in candidate order
ProjectAll(candidates, coords) ==
    LET results == [i \in 1 .. Len(candidates) |->
                       project_point_onto_transect(candidates[i].lon,
                                                   candidates[i].lat, coords)] \o << >>
        accepted == SelectSeq(Indices(Len(candidates)), LAMBDA i : results[i] # None)
    IN  [k \in 1 .. Len(accepted) |->
            ProjectedEntry(candidates[accepted[k]], results[accepted[k]])] \o << >>

StripDate(e) == [distance |-> e.distance, elevation |-> e.elevation,
                 quality |-> e.quality, perp_distance |-> e.perp_distance]

MapStrip(s) == [i \in 1 .. Len(s) |-> StripDate(s[i])] \o << >>

\* points_by_date[survey_date].append(...)
GroupByDate(entries) ==
    [d \in { entries[i].survey_date : i \in DOMAIN entries } |->
        MapStrip(SelectSeq(entries, LAMBDA e : e.survey_date = d))]

\* the place of points[i] in the stable ascending order of the distances
SortedPlace(points, i) ==
    Cardinality({ j \in DOMAIN points : points[j].distance < points[i].distance })
    + Cardinality({ j \in 1 .. i : points[j].distance = points[i].distance })

\* sorted(points, key=lambda p: p['distance']): stable
SortByDistance(points) ==
    LET place == [i \in 1 .. Len(points) |-> SortedPlace(points, i)] \o << >>
    IN  [k \in 1 .. Len(points) |->
            points[CHOOSE i \in DOMAIN points : place[i] = k]] \o << >>

\* variant: no point joins the group of another
NoGrouping(dj, di) == FALSE

\* line 196: sorted_points[j] joins the group that starts at sorted_points[i]
InGroup(dj, di) == dj - di < GROUP_WIDTH

\* the inner while loop: the first j > i that does not join the group of i
RECURSIVE GroupEnd(_, _, _)
GroupEnd(sorted_points, i, j) ==
    IF j <= Len(sorted_points)
       /\ InGroup(sorted_points[j].distance, sorted_points[i].distance)
    THEN GroupEnd(sorted_points, i, j + 1)
    ELSE j

\* lines 200-205
GroupEntry(group) ==
    [distance |-> RoundHalfEven(SeqSum(group, "distance"), Len(group)),
     elevation |-> MeanElevation([i \in DOMAIN group |-> group[i].elevation])]

\* the outer while loop from index i on
RECURSIVE DedupFrom(_, _)
DedupNext(sorted_points, i, j) ==
    << GroupEntry(SubSeq(sorted_points, i, j - 1)) >> \o DedupFrom(sorted_points, j)
DedupFrom(sorted_points, i) ==
    IF i > Len(sorted_points) THEN << >>
    ELSE DedupNext(sorted_points, i, GroupEnd(sorted_points, i, i + 1))

Deduplicate(points) == DedupFrom(SortByDistance(points), 1)

\* variant: a minimum of four bins
EnoughBins4(deduplicated) == Len(deduplicated) >= 4

\* line 208
EnoughBins(deduplicated) == Len(deduplicated) >= MIN_BINS

\* lines 209-213
TransectProfile(deduplicated) ==
    [distances |-> [i \in 1 .. Len(deduplicated) |-> deduplicated[i].distance],
     elevations |-> [i \in 1 .. Len(deduplicated) |-> deduplicated[i].elevation],
     point_count |-> Len(deduplicated)]

\* lines 186-213
Timeseries(by_date) ==
    LET deduplicated == [x \in DOMAIN by_date |-> Deduplicate(by_date[x])]
    IN  [d \in { x \in DOMAIN by_date : EnoughBins(deduplicated[x]) } |->
            TransectProfile(deduplicated[d])]

\* the local points_by_date at line 185
PointsByDate(transect_feature, index) ==
    GroupByDate(ProjectAll(CandidatePoints(transect_feature.coordinates, index),
                           transect_feature.coordinates))

TimeseriesRecord(transect_feature, timeseries) ==
    [transect_id |-> transect_feature.transect_id,
     base_date |-> transect_feature.survey_date,
     timeseries |-> timeseries,
     num_dates |-> Cardinality(DOMAIN timeseries)]

compute_transect_timeseries(transect_feature, index) ==
    TimeseriesRecord(transect_feature, Timeseries(PointsByDate(transect_feature, index)))


-----------------------------------------------------------------------------
(* MOP variant: create_interactive_mop_map.py lines 64-142                  *)

LAT_TO_M == 110574
LON_TO_M == 92890
BUFFER_M == 1000

\* shortest MOP line that is processed: 1 m
MIN_MOP_LENGTH == 1000
\* margin of the bounding box: 0.0005 degrees
BBOX_MARGIN == 500
\* bin width 0.5 m, in millimetres
BIN_WIDTH == 500
\* minimum number of points of a date, and of bins of a profile
MIN_MOP_POINTS == 5
MIN_MOP_BINS == 5

\* lines 70-74
MopVec(mop) == << ToMeters(mop.end[1] - mop.start[1], LON_TO_M),
                  ToMeters(mop.end[2] - mop.start[2], LAT_TO_M) >>
MopLength(mop) == Sqrt(MopVec(mop)[1] * MopVec(mop)[1] + MopVec(mop)[2] * MopVec(mop)[2])

\* lines 80-83 and 92
InBBox(mop, lon, lat) ==
    /\ Min(mop.start[1], mop.end[1]) - BBOX_MARGIN <= lon
    /\ lon <= Max(mop.start[1], mop.end[1]) + BBOX_MARGIN
    /\ Min(mop.start[2], mop.end[2]) - BBOX_MARGIN <= lat
    /\ lat <= Max(mop.start[2], mop.end[2]) + BBOX_MARGIN

\* lines 96-100: dist_along = dot(point_vec, mop_vec / mop_length)
MopDistAlong(mop, lon, lat) ==
    RoundDiv(ToMeters(lon - mop.start[1], LON_TO_M) * MopVec(mop)[1]
             + ToMeters(lat - mop.start[2], LAT_TO_M) * MopVec(mop)[2],
             MopLength(mop))

\* lines 106-107: norm(point_vec - dist_along * mop_unit)
MopOrthoDist(mop, lon, lat) ==
    LET dx == ToMeters(lon - mop.start[1], LON_TO_M)
              - RoundDiv(MopDistAlong(mop, lon, lat) * MopVec(mop)[1], MopLength(mop))
        dy == ToMeters(lat - mop.start[2], LAT_TO_M)
              - RoundDiv(MopDistAlong(mop, lon, lat) * MopVec(mop)[2], MopLength(mop))
    IN  Sqrt(dx * dx + dy * dy)

\* lines 92-109: the point is appended to date_points
MopAccepts(mop, lon, lat) ==
    /\ InBBox(mop, lon, lat)
    /\ ~(MopDistAlong(mop, lon, lat) < 0 \/ MopDistAlong(mop, lon, lat) > MopLength(mop))
    /\ MopOrthoDist(mop, lon, lat) <= BUFFER_M

\* lines 88-110: date_points of one date, as (dist_along, height) pairs
MopDatePoints(mop, points) ==
    LET accepted == SelectSeq(points, LAMBDA p : MopAccepts(mop, p.lon, p.lat))
    IN  [k \in 1 .. Len(accepted) |->
            [distance |-> MopDistAlong(mop, accepted[k].lon, accepted[k].lat),
             elevation |-> accepted[k].height]] \o << >>

\* len(np.arange(0, mop_length + 0.5, 0.5)) = ceil((mop_length + 0.5) / 0.5)
NumBinEdges(mop_length) == (mop_length + BIN_WIDTH + BIN_WIDTH - 1) \div BIN_WIDTH

\* np.digitize(dists, bins): the number of edges k*0.5 (k < len(bins)) that are <= x
Digitize(x, num_edges) == Min(num_edges, (x \div BIN_WIDTH) + 1)

\* lines 125-126 with the rounding of lines 130-131: the mean of a bin
BinMean(members) ==
    [distance |-> RoundHalfEven(SeqSum(members, "distance"), 10 * Len(members)),
     elevation |-> RoundHalfEven(SeqSum(members, "elevation"), 10 * Len(members))]

\* line 123: dists[bin_indices == b]
BinMembers(date_points, b, num_edges) ==
    SelectSeq(date_points, LAMBDA p : Digitize(p.distance, num_edges) = b)

\* lines 121-126: the means of the non-empty bins b = 1 .. len(bins) - 1, in order
MopBins(date_points, num_edges) ==
    LET non_empty == SelectSeq(Indices(num_edges - 1),
                               LAMBDA b : BinMembers(date_points, b, num_edges) # << >>)
    IN  [k \in 1 .. Len(non_empty) |->
            BinMean(BinMembers(date_points, non_empty[k], num_edges))] \o << >>

\* lines 112-126
MopBinned(mop, points) ==
    LET date_points == MopDatePoints(mop, points)
    IN  IF Len(date_points) >= MIN_MOP_POINTS
        THEN MopBins(date_points, NumBinEdges(MopLength(mop)))
        ELSE << >>

\* line 128
MopEnoughBins(binned) == Len(binned) >= MIN_MOP_BINS

MopProfile(binned) ==
    [distances |-> [i \in 1 .. Len(binned) |-> binned[i].distance],
     elevations |-> [i \in 1 .. Len(binned) |-> binned[i].elevation]]

\* lines 85-132
MopProfiles(mop, by_date) ==
    LET binned == [x \in DOMAIN by_date |-> MopBinned(mop, by_date[x])]
    IN  [d \in { x \in DOMAIN by_date : MopEnoughBins(binned[x]) } |->
            MopProfile(binned[d])]

\* variant: the record is returned whatever the number of profiles
MopReturnAlways(mop, profiles) ==
    [mop_name |-> mop.name,
     mop_length |-> RoundHalfEven(MopLength(mop), 100),
     num_dates |-> Cardinality(DOMAIN profiles),
     profiles |-> profiles]

\* lines 134-142
MopReturn(mop, profiles) ==
    IF Cardinality(DOMAIN profiles) < 1 THEN None
    ELSE [mop_name |-> mop.name,
          mop_length |-> RoundHalfEven(MopLength(mop), 100),
          num_dates |-> Cardinality(DOMAIN profiles),
          profiles |-> profiles]

compute_mop_timeseries(mop, by_date) ==
    IF MopLength(mop) < MIN_MOP_LENGTH THEN None
    ELSE MopReturn(mop, MopProfiles(mop, by_date))


-----------------------------------------------------------------------------
(* Inputs of the batch pipelines                                            *)

\* number of survey dates (days of January 2024)
NumDates == 2
\* number of GPS fixes of one pass of a survey walk
PassLen == 9

\* one pass: n fixes from offset (x0, y0), one every (sx, sy) micro-degrees
Pass(x0, y0, sx, sy, n) == [j \in 1 .. n |-> << x0 + (j - 1) * sx, y0 + (j - 1) * sy >>]

\* The survey walks a file can hold, as offsets from the scene origin:
\*   1  along the reference line, a fix every 0.58 m
\*   2  along the reference line, a fix every 0.48 m
\*   3  a slow walk, a fix every 0.11 m
\*   4  a walk 5 m east of the reference line
\*   5  walk 1 followed by a short second pass 0.5 m beside it
\*   6  a walk that starts 1 m beside the reference line and closes in on it
\*   7  a walk of four fixes
SurveyWalks ==
    << Pass(0, 0, 2, 5, PassLen),
       Pass(0, 0, 2, 4, PassLen),
       Pass(0, 0, 0, 1, PassLen),
       Pass(54, 0, 2, 5, PassLen),
       Pass(0, 0, 2, 5, PassLen) \o Pass(16, 29, 2, 5, 2),
       Pass(12, 2, 1, 5, PassLen),
       Pass(0, 0, 2, 5, 4) >>

\* ellipsoidal height of fix j of the survey of day d, in tenths of a millimetre
HeightOf(d, j) == 31234 + 1000 * d - 155 * j

\* an LLHFile as returned by parse_llh_file
LLHFileOf(d, w) ==
    [survey_date |-> d,
     points |-> [j \in 1 .. Len(SurveyWalks[w]) |->
                    [lon |-> LON0 + SurveyWalks[w][j][1],
                     lat |-> LAT0 + SurveyWalks[w][j][2],
                     height |-> HeightOf(d, j),
                     quality |-> 1]]]

\* survey_date.strftime('%Y-%m-%d')
DateStr(d) == "2024-01-0" \o ToString(d)

\* processed/transects.geojson: a straight transect, one that lies 30 m north
\* of every survey walk, a 28 m long one that runs west to east 0.9 m south
\* of the scene origin with its two vertices two grid cells away (walk 6
\* starts 1.1 m from it, every other walk within 1 m), the first transect
\* of a second file of the first day and the same device, walked the other
\* way (generate_transects.py numbers the transects of every file from T001,
\* lines 224 and 264), one with an empty vertex list, and a bent one
FEATURES ==
    << [transect_id |-> "20240101_SOS_T001", survey_date |-> "2024-01-01",
        coordinates |-> << At(0, 0), At(14, 38) >>],
       [transect_id |-> "20240102_SOS_T001", survey_date |-> "2024-01-02",
        coordinates |-> << At(0, 300), At(14, 338) >>],
       [transect_id |-> "20240102_SOS_T002", survey_date |-> "2024-01-02",
        coordinates |-> << At(-150, -8), At(151, -8) >>],
       [transect_id |-> "20240101_SOS_T001", survey_date |-> "2024-01-01",
        coordinates |-> << At(14, 38), At(0, 0) >>],
       [transect_id |-> "20240102_SOS_T003", survey_date |-> "2024-01-02",
        coordinates |-> << >>],
       [transect_id |-> "20240101_SOS_T002", survey_date |-> "2024-01-01",
        coordinates |-> << At(0, 0), At(6, 20), At(14, 38) >>] >>

\* the MOP lines parsed from the KML file: one along the first transect, one
\* shorter than a metre, one that lies 30 m north of every survey walk, and
\* one 10.5 m long that ends where the ninth fix of walk 1 stands
MOP_LINES ==
    << [name |-> "MOP_1", start |-> At(0, 0), end |-> At(14, 38)],
       [name |-> "MOP_2", start |-> At(0, 0), end |-> At(3, 6)],
       [name |-> "MOP_3", start |-> At(0, 300), end |-> At(14, 338)],
       [name |-> "MOP_4", start |-> At(-12, -52), end |-> At(16, 40)] >>

-----------------------------------------------------------------------------
(* The batch pipelines: compute_timeseries.main and                         *)
(* create_interactive_mop_map.main, run one after the other.  Each parses   *)
(* its directory of LLH files (data/LLH, data/raw/LLH); the model gives     *)
(* both runs the same parsed files.                                         *)

InitGeomIdle ==
    /\ transect_coords = << >>
    /\ point_lon = LON0
    /\ point_lat = LAT0
    /\ seg_index = 0
    /\ psd_result = None
    /\ proj_result = None
    /\ proj_called = FALSE

Init ==
    /\ pc = "parse"
    /\ llh_files = << >>
    /\ all_points = << >>
    /\ spatial_index = EmptyDict
    /\ feature_no = 0
    /\ processed = {}
    /\ ts_data = None
    /\ points_by_date = EmptyDict
    /\ timeseries_data = EmptyDict
    /\ all_points_by_date = EmptyDict
    /\ mop_no = 0
    /\ mop_ts = None
    /\ mop_data = EmptyDict
    /\ InitGeomIdle
    /\ InitSurveysIdle
    /\ InitSegIdle
    /\ InitGenIdle

LastDate == IF llh_files = << >> THEN 0 ELSE llh_files[Len(llh_files)].survey_date

\* parse_all_llh_files appends one more parsed file (parse_llh.py lines 267-273)
ParseFile ==
    /\ pc = "parse"
    /\ \E d \in LastDate + 1 .. NumDates, w \in DOMAIN SurveyWalks :
          llh_files' = Append(llh_files, LLHFileOf(d, w))
    /\ UNCHANGED << pc, all_points, spatial_index, feature_no, processed, ts_data,
                    points_by_date, timeseries_data, all_points_by_date, mop_no,
                    mop_ts, mop_data >>
    /\ UNCHANGED geom_vars
    /\ UNCHANGED survey_vars
    /\ UNCHANGED seg_vars
    /\ UNCHANGED gen_vars

\* compute_timeseries.main lines 234-244
FlattenPoints(files) ==
    Flatten([f \in 1 .. Len(files) |->
        [j \in 1 .. Len(files[f].points) |->
            [lon |-> files[f].points[j].lon,
             lat |-> files[f].points[j].lat,
             height |-> files[f].points[j].height,
             quality |-> files[f].points[j].quality,
             survey_date |-> DateStr(files[f].survey_date)]]])

\* compute_timeseries.main lines 229-259: load the points, build the index
LoadPoints ==
    /\ pc = "parse"
    /\ pc' = "transects"
    /\ all_points' = FlattenPoints(llh_files)
    /\ spatial_index' = build_spatial_index(FlattenPoints(llh_files))
    /\ UNCHANGED << llh_files, feature_no, processed, ts_data, points_by_date,
                    timeseries_data, all_points_by_date, mop_no, mop_ts, mop_data >>
    /\ UNCHANGED geom_vars
    /\ UNCHANGED survey_vars
    /\ UNCHANGED seg_vars
    /\ UNCHANGED gen_vars

\* variant: store every record that has a date
StoreAny(ts) == ts.num_dates > 0

\* line 272: only store if there's data from multiple dates
StoreIt(ts) == ts.num_dates > 1

\* timeseries_data[ts_data['transect_id']] = ts_data
DictPut(dict, key, value) ==
    [k \in DOMAIN dict \cup {key} |-> IF k = key THEN value ELSE dict[k]]

\* compute_timeseries.main lines 266-273: the body of the loop for feature f
ProcessFeature(f) ==
    /\ feature_no' = f
    /\ processed' = processed \cup {f}
    /\ points_by_date' = PointsByDate(FEATURES[f], spatial_index)
    /\ ts_data' = TimeseriesRecord(FEATURES[f], Timeseries(points_by_date'))
    /\ timeseries_data' =
          IF StoreIt(ts_data')
          THEN DictPut(timeseries_data, ts_data'.transect_id, ts_data')
          ELSE timeseries_data
    /\ spatial_index' = IndexAfterCompute(FEATURES[f], spatial_index)
    /\ UNCHANGED << pc, llh_files, all_points, all_points_by_date,
                    mop_no, mop_ts, mop_data >>
    /\ UNCHANGED geom_vars
    /\ UNCHANGED survey_vars
    /\ UNCHANGED seg_vars
    /\ UNCHANGED gen_vars

\* compute_timeseries.main lines 265-273: one iteration of the loop, the
\* features taken in the order of the file
ProcessTransect ==
    /\ pc = "transects"
    /\ feature_no < Len(FEATURES)
    /\ ProcessFeature(feature_no + 1)

\* create_interactive_mop_map.main lines 712-718
OrganizeByDate(files) ==
    [d \in { DateStr(files[f].survey_date) : f \in DOMAIN files } |->
        Flatten([f \in 1 .. Len(files) |->
            IF DateStr(files[f].survey_date) = d
            THEN [j \in 1 .. Len(files[f].points) |->
                     [lon |-> files[f].points[j].lon,
                      lat |-> files[f].points[j].lat,
                      height |-> files[f].points[j].height]]
            ELSE << >>])]

\* create_interactive_mop_map.main lines 706-718, once the transect run is over
LoadMopPoints ==
    /\ pc = "transects"
    /\ feature_no = Len(FEATURES)
    /\ pc' = "mops"
    /\ all_points_by_date' = OrganizeByDate(llh_files)
    /\ UNCHANGED << llh_files, all_points, spatial_index, feature_no, processed, ts_data,
                    points_by_date, timeseries_data, mop_no, mop_ts, mop_data >>
    /\ UNCHANGED geom_vars
    /\ UNCHANGED survey_vars
    /\ UNCHANGED seg_vars
    /\ UNCHANGED gen_vars

\* create_interactive_mop_map.main lines 726-732: one iteration of the loop
ProcessMop ==
    /\ pc = "mops"
    /\ mop_no < Len(MOP_LINES)
    /\ mop_no' = mop_no + 1
    /\ mop_ts' = compute_mop_timeseries(MOP_LINES[mop_no + 1], all_points_by_date)
    /\ mop_data' =
          IF mop_ts' # None
          THEN DictPut(mop_data, MOP_LINES[mop_no + 1].name, mop_ts')
          ELSE mop_data
    /\ UNCHANGED << pc, llh_files, all_points, spatial_index, feature_no, processed, ts_data,
                    points_by_date, timeseries_data, all_points_by_date >>
    /\ UNCHANGED geom_vars
    /\ UNCHANGED survey_vars
    /\ UNCHANGED seg_vars
    /\ UNCHANGED gen_vars

Next == ParseFile \/ LoadPoints \/ ProcessTransect \/ LoadMopPoints \/ ProcessMop

Spec == Init /\ [][Next]_vars

\* one iteration of the loop of lines 265-273 when the features of
\* transects.geojson come in any order: any feature not yet processed is next
ProcessTransectAnyOrder ==
    /\ pc = "transects"
    /\ \E f \in (1 .. Len(FEATURES)) \ processed : ProcessFeature(f)

\* the survey walks of the files of the any-order run
AnyOrderWalks == {1, 2, 4, 6}

\* the state once parse_all_llh_files has returned one file for every date
InitAnyOrder ==
    /\ pc = "parse"
    /\ llh_files \in { [d \in 1 .. NumDates |-> LLHFileOf(d, walk[d])] :
                          walk \in [1 .. NumDates -> AnyOrderWalks] }
    /\ all_points = << >>
    /\ spatial_index = EmptyDict
    /\ feature_no = 0
    /\ processed = {}
    /\ ts_data = None
    /\ points_by_date = EmptyDict
    /\ timeseries_data = EmptyDict
    /\ all_points_by_date = EmptyDict
    /\ mop_no = 0
    /\ mop_ts = None
    /\ mop_data = EmptyDict
    /\ InitGeomIdle
    /\ InitSurveysIdle
    /\ InitSegIdle
    /\ InitGenIdle

NextAnyOrder == LoadPoints \/ ProcessTransectAnyOrder

\* the transect run over every order of the features
SpecAnyOrder == InitAnyOrder /\ [][NextAnyOrder]_vars

-----------------------------------------------------------------------------
(* Properties of the batch pipelines, checked under Spec                    *)

\* the transect feature of the last compute_transect_timeseries call
LastFeature == FEATURES[feature_no]
\* the MOP line of the last compute_mop_timeseries call
LastMop == MOP_LINES[mop_no]

TransectRan == feature_no >= 1 /\ ts_data # None
MopRan == mop_no >= 1
\* the state a compute_transect_timeseries call has just returned a record in;
\* once the run has left the loop of lines 265-273 (pc = "mops") the variables
\* of that loop keep the values they had at the return of the last call
TransectReturned == pc = "transects" /\ TransectRan

StrictlyIncreasing(s) == \A i \in 1 .. Len(s) - 1 : s[i] < s[i + 1]

\* the minimum point-to-segment distance of every loaded point to the line
\* (INF for a line without segments)
MinDistOfPoints(coords) ==
    [i \in 1 .. Len(all_points) |->
        IF Segments(coords) = {} THEN INF
        ELSE SetMin(SegDists(all_points[i].lon, all_points[i].lat, coords))] \o << >>

\* C1: the projector accepts a point exactly when its minimum distance over
\* the segments of the line is at most 1.0 m (1.0 m included) and returns None
\* otherwise; every entry that compute_transect_timeseries collects, and so
\* every profile it emits, stems from points within 1.0 m of the line.
C1_BufferAcceptance ==
    TransectReturned =>
        LET min_dist == MinDistOfPoints(LastFeature.coordinates)
            near(d) == { i \in DOMAIN all_points :
                           /\ all_points[i].survey_date = d
                           /\ min_dist[i] <= BUFFER_METERS }
        IN  /\ \A i \in DOMAIN all_points :
                  (project_point_onto_transect(all_points[i].lon, all_points[i].lat,
                                               LastFeature.coordinates) # None)
                  <=> min_dist[i] <= BUFFER_METERS
            /\ \A d \in DOMAIN points_by_date : \A k \in DOMAIN points_by_date[d] :
                  /\ points_by_date[d][k].perp_distance <= BUFFER_METERS
                  /\ \E i \in near(d) :
                        /\ points_by_date[d][k].elevation = Round3(all_points[i].height)
                        /\ points_by_date[d][k].perp_distance = min_dist[i]
            /\ \A d \in DOMAIN ts_data.timeseries :
                  /\ d \in DOMAIN points_by_date
                  /\ ts_data.timeseries[d].point_count <= Cardinality(near(d))

\* a call that accepted a point at exactly 1.0 m and rejected every point of a
\* walk 5 m away, and that emitted a profile
C1_Witness ==
    /\ TransectRan
    /\ \E d \in DOMAIN points_by_date : \E k \in DOMAIN points_by_date[d] :
          points_by_date[d][k].perp_distance = BUFFER_METERS
    /\ \E i \in DOMAIN all_points :
          /\ all_points[i].survey_date \notin DOMAIN points_by_date
          /\ MinDistOfPoints(LastFeature.coordinates)[i] > 4 * BUFFER_METERS
    /\ DOMAIN ts_data.timeseries # {}

ProfileWellFormed(profile) ==
    /\ Len(profile.distances) = Len(profile.elevations)
    /\ StrictlyIncreasing(profile.distances)

\* C7: every date profile of the transect variant has as many distances as
\* elevations, point_count of them, and strictly increasing distances.
C7_TransectProfilesWellFormed ==
    /\ TransectReturned =>
          \A d \in DOMAIN ts_data.timeseries :
              /\ ProfileWellFormed(ts_data.timeseries[d])
              /\ Len(ts_data.timeseries[d].distances) = ts_data.timeseries[d].point_count
    /\ \A id \in DOMAIN timeseries_data : \A d \in DOMAIN timeseries_data[id].timeseries :
          /\ ProfileWellFormed(timeseries_data[id].timeseries[d])
          /\ Len(timeseries_data[id].timeseries[d].distances)
                = timeseries_data[id].timeseries[d].point_count

\* an emitted record with one date whose accepted points share a rounded
\* distance, and one date with two accepted points between 0.45 m and 0.5 m apart
C7_Witness ==
    /\ TransectRan
    /\ \E d \in DOMAIN ts_data.timeseries : \E i, j \in DOMAIN points_by_date[d] :
          i < j /\ points_by_date[d][i].distance = points_by_date[d][j].distance
    /\ \E d \in DOMAIN ts_data.timeseries : \E i, j \in DOMAIN points_by_date[d] :
          /\ points_by_date[d][j].distance - points_by_date[d][i].distance >= 45
          /\ points_by_date[d][j].distance - points_by_date[d][i].distance < GROUP_WIDTH

\* C8: every date profile of the MOP variant has as many distances as
\* elevations and strictly increasing distances.
C8_MopProfilesWellFormed ==
    /\ (MopRan /\ mop_ts # None) =>
          \A d \in DOMAIN mop_ts.profiles : ProfileWellFormed(mop_ts.profiles[d])
    /\ \A name \in DOMAIN mop_data : \A d \in DOMAIN mop_data[name].profiles :
          ProfileWellFormed(mop_data[name].profiles[d])

\* C9: in both variants a date is in the emitted profiles only if its reduced
\* profile has at least 5 bins; a date that reduces to 4 bins or fewer is
\* absent and not counted in num_dates.
C9_MinimumBins ==
    /\ TransectReturned =>
          /\ \A d \in DOMAIN ts_data.timeseries :
                /\ ts_data.timeseries[d].point_count >= 5
                /\ Len(ts_data.timeseries[d].distances) >= 5
          /\ \A d \in DOMAIN points_by_date :
                Len(Deduplicate(points_by_date[d])) <= 4
                    => d \notin DOMAIN ts_data.timeseries
          /\ ts_data.num_dates = Cardinality(DOMAIN ts_data.timeseries)
    /\ (MopRan /\ mop_ts # None) =>
          /\ \A d \in DOMAIN mop_ts.profiles : Len(mop_ts.profiles[d].distances) >= 5
          /\ \A d \in DOMAIN all_points_by_date :
                Len(MopBinned(LastMop, all_points_by_date[d])) <= 4
                    => d \notin DOMAIN mop_ts.profiles
          /\ mop_ts.num_dates = Cardinality(DOMAIN mop_ts.profiles)

\* both variants returned a record with one date, having dropped the other
\* date because its accepted points reduce to between 1 and 4 bins
C9_Witness ==
    /\ TransectRan
    /\ ts_data.num_dates = 1
    /\ \E d \in DOMAIN points_by_date :
          /\ d \notin DOMAIN ts_data.timeseries
          /\ Len(Deduplicate(points_by_date[d])) \in 1 .. 4
    /\ MopRan
    /\ mop_ts # None
    /\ mop_ts.num_dates = 1
    /\ \E d \in DOMAIN all_points_by_date :
          /\ d \notin DOMAIN mop_ts.profiles
          /\ Len(MopBinned(LastMop, all_points_by_date[d])) \in 1 .. 4

\* C10: every record stored by the transect pipeline has num_dates >= 2; the
\* record of a transect with a single emitted date is not stored.
C10_StoredHaveTwoDates ==
    /\ \A id \in DOMAIN timeseries_data :
          /\ timeseries_data[id].num_dates >= 2
          /\ Cardinality(DOMAIN timeseries_data[id].timeseries) >= 2
    /\ (TransectReturned /\ ts_data.num_dates <= 1) =>
          ts_data.transect_id \notin DOMAIN timeseries_data

\* a transect whose accepted points all come from one survey date returned a
\* record with that date, which was not stored
C10_Witness ==
    /\ TransectRan
    /\ Cardinality(DOMAIN points_by_date) = 1
    /\ ts_data.num_dates = 1
    /\ ts_data.transect_id \notin DOMAIN timeseries_data

\* the dates whose points pass the point and bin minimums of the MOP variant
MopDatesKept(mop) ==
    { d \in DOMAIN all_points_by_date :
        MopEnoughBins(MopBinned(mop, all_points_by_date[d])) }

\* C11: in every record of either variant num_dates is the number of keys of
\* the profile mapping; compute_mop_timeseries returns None, not a record,
\* when that number would be 0.
C11_NumDatesCountsProfiles ==
    /\ TransectReturned => ts_data.num_dates = Cardinality(DOMAIN ts_data.timeseries)
    /\ \A id \in DOMAIN timeseries_data :
          timeseries_data[id].num_dates
              = Cardinality(DOMAIN timeseries_data[id].timeseries)
    /\ \A name \in DOMAIN mop_data :
          /\ mop_data[name].num_dates = Cardinality(DOMAIN mop_data[name].profiles)
          /\ mop_data[name].num_dates >= 1
    /\ MopRan =>
          /\ mop_ts # None =>
                /\ mop_ts.num_dates = Cardinality(DOMAIN mop_ts.profiles)
                /\ mop_ts.num_dates >= 1
          /\ MopDatesKept(LastMop) = {} => mop_ts = None

\* a MOP line of more than a metre returned None with two dates loaded, after
\* another MOP line and a transect returned records with two dates
C11_Witness ==
    /\ MopRan
    /\ MopLength(LastMop) >= MIN_MOP_LENGTH
    /\ Cardinality(DOMAIN all_points_by_date) = 2
    /\ mop_ts = None
    /\ \E name \in DOMAIN mop_data : mop_data[name].num_dates = 2
    /\ TransectRan
    /\ ts_data.num_dates = 2

\* floor(x / cell_size)
FloorCell(lon, lat) == << lon \div CELL_SIZE, lat \div CELL_SIZE >>

\* C12: every indexed point lies in the cell keyed by
\* (floor(lon / cell_size), floor(lat / cell_size)), negative coordinates
\* included, and the neighbourhood of get_nearby_cells is centred on that cell.
C12_FloorKeyedCells ==
    /\ \A c \in DOMAIN spatial_index : \A k \in DOMAIN spatial_index[c] :
          c = FloorCell(spatial_index[c][k].lon, spatial_index[c][k].lat)
    /\ \A i \in DOMAIN all_points :
          get_nearby_cells(all_points[i].lon, all_points[i].lat)[5]
              = FloorCell(all_points[i].lon, all_points[i].lat)

\* the elements of a sequence
Elements(seq) == { seq[i] : i \in DOMAIN seq }

\* the profiles obtained by projecting every loaded point onto the line
BruteForceTimeseries(coords) == Timeseries(GroupByDate(ProjectAll(all_points, coords)))

\* C13: the candidate search misses no point within the buffer: every loaded
\* point whose minimum distance to the transect is at most 1 m is among the
\* candidates taken from the cells around the vertices, and the emitted
\* profiles are those of projecting every loaded point.
C13_CandidatesCoverBuffer ==
    TransectRan =>
        LET coords == LastFeature.coordinates
            min_dist == MinDistOfPoints(coords)
            candidates == Elements(CandidatePoints(coords, spatial_index))
        IN  /\ \A i \in DOMAIN all_points :
                  min_dist[i] <= BUFFER_METERS => all_points[i] \in candidates
            /\ ts_data.timeseries = BruteForceTimeseries(coords)

\* the cells that the per-line computations done so far have looked up
CellsQueried ==
    UNION { Elements(NearbyOfCoords(FEATURES[f].coordinates)) : f \in 1 .. feature_no }

\* C14: compute_transect_timeseries leaves the shared spatial index unchanged:
\* after any number of per-line computations the index has the cell keys that
\* build_spatial_index gave it (a lookup of an empty cell creates no entry)
\* and the same point list in every cell.
C14_IndexUnchanged ==
    pc # "parse" =>
        LET built == build_spatial_index(all_points)
        IN  /\ DOMAIN spatial_index = DOMAIN built
            /\ \A c \in DOMAIN spatial_index : spatial_index[c] = built[c]

\* every line has been processed, empty cells were looked up, and a profile
\* was computed from the cells that hold points
C14_Witness ==
    /\ feature_no = Len(FEATURES)
    /\ CellsQueried \ DOMAIN spatial_index # {}
    /\ CellsQueried \cap DOMAIN spatial_index # {}
    /\ ts_data.num_dates >= 1

\* the record of feature f, computed from its geometry and the frozen index
\* alone
OwnRecord(f) == compute_transect_timeseries(FEATURES[f], build_spatial_index(all_points))

\* C15: the per-line computations are independent: in whatever order the
\* lines are processed, the slot of every processed line that is stored holds
\* the record computed from that line's geometry and the index, and no slot
\* exists but those of the processed lines; so every order ends with the same
\* mapping.
C15_LinesIndependent ==
    pc = "transects" =>
        /\ \A f \in processed :
              StoreIt(OwnRecord(f)) =>
                  /\ FEATURES[f].transect_id \in DOMAIN timeseries_data
                  /\ timeseries_data[FEATURES[f].transect_id] = OwnRecord(f)
        /\ \A id \in DOMAIN timeseries_data :
              \E f \in processed : FEATURES[f].transect_id = id

\* the dates of the points within the buffer of the line of feature f
DatesNear(f) ==
    LET min_dist == MinDistOfPoints(FEATURES[f].coordinates)
    IN  { all_points[i].survey_date :
            i \in { j \in DOMAIN all_points : min_dist[j] <= BUFFER_METERS } }

\* C16: a line with an empty vertex list, with no point within the buffer, or
\* with points of fewer than two dates within the buffer is skipped: the
\* iteration that processes it returns a record, adds no entry to the output
\* mapping and leaves every entry of the mapping as it was.
C16_InsufficientLinesSkipped ==
    [][(processed' # processed /\ Cardinality(DatesNear(feature_no')) < 2)
          => /\ ts_data' # None
             /\ ts_data'.num_dates < 2
             /\ timeseries_data' = timeseries_data]_vars

\* the line with the empty vertex list, a line with no point within the
\* buffer and a line with points of one date within the buffer have been
\* processed, the first of them last, and the mapping holds an entry
C16_Witness ==
    /\ feature_no >= 1
    /\ LastFeature.coordinates = << >>
    /\ ts_data.num_dates = 0
    /\ \E f \in processed : FEATURES[f].coordinates # << >> /\ DatesNear(f) = {}
    /\ \E f \in processed : Cardinality(DatesNear(f)) = 1
    /\ DOMAIN timeseries_data # {}

\* point i of all_points is collected by the grid-index variant for the line
\* of two vertices from start to end
GridAccepts(start, end, i) ==
    /\ all_points[i] \in Elements(CandidatePoints(<< start, end >>, spatial_index))
    /\ project_point_onto_transect(all_points[i].lon, all_points[i].lat,
                                   << start, end >>) # None

\* C17: for the same two-vertex line and the same points, the grid-index
\* variant and the bounding-box variant accept exactly the same points,
\* points that project before the start or beyond the end of the line but lie
\* within 1 m of an endpoint included.
C17_VariantsAcceptSamePoints ==
    pc = "mops" =>
        \A m \in DOMAIN MOP_LINES : \A i \in DOMAIN all_points :
            MopLength(MOP_LINES[m]) >= MIN_MOP_LENGTH =>
                (GridAccepts(MOP_LINES[m].start, MOP_LINES[m].end, i)
                 <=> MopAccepts(MOP_LINES[m], all_points[i].lon, all_points[i].lat))

\* C28: every accepted point of a date whose profile is emitted contributes
\* to one output bin: its bin index is one of the indices 1 .. len(bins) - 1
\* that the loop over the bins visits, a point that projects onto the very
\* end of a line whose length is a whole multiple of 0.5 m included.
C28_AcceptedPointsBinned ==
    (MopRan /\ mop_ts # None) =>
        \A d \in DOMAIN mop_ts.profiles :
            LET date_points == MopDatePoints(LastMop, all_points_by_date[d])
                num_edges == NumBinEdges(MopLength(LastMop))
            IN  \A i \in DOMAIN date_points :
                    Digitize(date_points[i].distance, num_edges) \in 1 .. num_edges - 1

\* the number of entries of the list that equal x
Occurrences(s, x) == Cardinality({ i \in DOMAIN s : s[i] = x })

\* the vertices of the line whose 3x3 neighbourhood holds the cell of the point
VerticesNear(coords, p) ==
    { v \in DOMAIN coords :
        CellOf(p.lon, p.lat) \in Elements(get_nearby_cells(coords[v][1], coords[v][2])) }

\* C29: each indexed point is projected at most once per transect, even when
\* its cell lies in the 3x3 neighbourhood of several vertices: a point is
\* among the candidates no more often than it was indexed, and the points
\* collected for a date before the merge number at most the indexed points of
\* that date.
C29_ProjectedOnce ==
    TransectReturned =>
        LET candidates == CandidatePoints(LastFeature.coordinates, spatial_index)
        IN  /\ \A i \in DOMAIN candidates :
                  Occurrences(candidates, candidates[i])
                      <= Occurrences(all_points, candidates[i])
            /\ \A d \in DOMAIN points_by_date :
                  Len(points_by_date[d])
                      <= Cardinality({ all_points[i] :
                                         i \in { j \in DOMAIN all_points :
                                                   all_points[j].survey_date = d } })

\* the line of three vertices was processed, and a point collected for it
\* lies in a cell that the neighbourhoods of all three vertices hold
C29_Witness ==
    /\ TransectRan
    /\ Len(LastFeature.coordinates) = 3
    /\ DOMAIN points_by_date # {}
    /\ \E i \in DOMAIN all_points :
          /\ VerticesNear(LastFeature.coordinates, all_points[i]) = {1, 2, 3}
          /\ project_point_onto_transect(all_points[i].lon, all_points[i].lat,
                                         LastFeature.coordinates) # None

-----------------------------------------------------------------------------
(* Transect segmentation: generate_transects.py lines 139-267.              *)
(* Timestamps are integers in seconds, bearings integers in degrees,        *)
(* distances integers in millimetres.                                       *)

\* generate_transects.haversine_distance (lines 139-161): the same formula as
\* in compute_timeseries.py, with the same Earth radius
PointDistance(p, q) == haversine_distance(p.lat, p.lon, q.lat, q.lon)

\* 10000 * tan(k degrees), k = 0 .. 45
TAN_E4 ==
    << 0, 175, 349, 524, 699, 875, 1051, 1228, 1405, 1584, 1763, 1944, 2126,
       2309, 2493, 2679, 2867, 3057, 3249, 3443, 3640, 3839, 4040, 4245, 4452,
       4663, 4877, 5095, 5317, 5543, 5774, 6009, 6249, 6494, 6745, 7002, 7265,
       7536, 7813, 8098, 8391, 8693, 9004, 9325, 9657, 10000 >>

Abs(a) == IF a >= 0 THEN a ELSE -a

\* atan(num / den) in whole degrees, for 0 <= num <= den and den > 0
AtanDeg(num, den) ==
    LET err(k) == Abs(num * 10000 - den * TAN_E4[k + 1])
    IN  CHOOSE k \in 0 .. 45 :
            \A j \in 0 .. 45 : err(k) < err(j) \/ (err(k) = err(j) /\ k <= j)

\* math.degrees(math.atan2(y, x)), in whole degrees of -180 .. 180
Atan2Deg(y, x) ==
    LET a == IF x = 0 /\ y = 0 THEN 0
             ELSE IF Abs(y) <= Abs(x) THEN AtanDeg(Abs(y), Abs(x))
             ELSE 90 - AtanDeg(Abs(x), Abs(y))
        b == IF x >= 0 THEN a ELSE 180 - a
    IN  IF y >= 0 THEN b ELSE -b

\* calculate_bearing (lines 164-184).  For the arcs of a survey y is the
\* eastward and x the northward component of the step, up to a common factor.
calculate_bearing(lat1, lon1, lat2, lon2) ==
    LET y == ToMeters(lon2 - lon1, HAV_LON_M)
        x == ToMeters(lat2 - lat1, HAV_LAT_M)
    IN  (Atan2Deg(y, x) + 360) % 360

\* line 235: the shortest step a bearing is computed for, 1.0 m, exclusive
MIN_BEARING_DIST == 1000

\* variant: a gap equal to the threshold splits as well
TimeGapSplitsAtThreshold(time_diff, threshold) == time_diff >= threshold

\* line 221
TimeGapSplits(time_diff, threshold) == time_diff > threshold

\* line 235
FarEnough(dist) == dist > MIN_BEARING_DIST

\* lines 241-243: the angular difference, folded into 0 .. 180
BearingDiff(current_bearing, previous) ==
    IF Abs(current_bearing - previous) > 180
    THEN 360 - Abs(current_bearing - previous)
    ELSE Abs(current_bearing - previous)

\* variant: a turn never ends the segment
NeverTurns(bearing_diff, threshold) == FALSE

\* line 246
DirectionChanged(bearing_diff, threshold) == bearing_diff > threshold

\* variant: every segment is long enough
AnyLength(segment, min_points) == TRUE

\* lines 223, 248 and 262
LongEnough(segment, min_points) == Len(segment) >= min_points

\* f"{n:03d}"
Pad3(n) ==
    IF n < 10 THEN "00" \o ToString(n)
    ELSE IF n < 100 THEN "0" \o ToString(n)
    ELSE ToString(n)

\* variant: every transect of a file is numbered 1
TransectIdUnnumbered(date, device, n) ==
    "2024010" \o ToString(date) \o "_" \o device \o "_T" \o Pad3(1)

\* lines 224, 249 and 263:
\* f"{survey_date.strftime('%Y%m%d')}_{device_name}_T{n:03d}"
TransectId(date, device, n) ==
    "2024010" \o ToString(date) \o "_" \o device \o "_T" \o Pad3(n)

\* lines 223-226, 248-251 and 262-265: the transect is appended, numbered
\* len(transects) + 1, if the segment is long enough
AppendTransect(list, segment, min_points) ==
    IF LongEnough(segment, min_points)
    THEN Append(list, [transect_id |-> TransectId(survey_date, device_name, Len(list) + 1),
                       transect_no |-> Len(list) + 1,
                       survey_date |-> survey_date,
                       device_name |-> device_name,
                       points |-> segment])
    ELSE list

\* a value of previous_bearing that is not None
Bearing(degrees) == [degrees |-> degrees]

\* the step from llh_file[i - 1] to llh_file[i] ends the segment: lines 221
\* and 235-246
EndsSegment(i, previous) ==
    LET prev_point == llh_file[i - 1]
        curr_point == llh_file[i]
    IN  \/ TimeGapSplits(curr_point.timestamp - prev_point.timestamp, time_gap_threshold)
        \/ /\ FarEnough(PointDistance(prev_point, curr_point))
           /\ previous # None
           /\ DirectionChanged(
                  BearingDiff(calculate_bearing(prev_point.lat, prev_point.lon,
                                                curr_point.lat, curr_point.lon),
                              previous.degrees),
                  direction_change_threshold)

\* variant: the point before the split is carried into the next segment too
StartSegmentAtPrevious(prev_point, curr_point) == << prev_point, curr_point >>

\* lines 227 and 252: current_segment = [curr_point]
StartSegment(prev_point, curr_point) == << curr_point >>

\* ---- inputs ----

\* largest number of points of a file, the zigzag walk apart
MaxPoints == 5

\* The steps between two fixes, as (seconds, micro-degrees east, micro-degrees
\* north):
\*   1  1.11 m north after 1 s
\*   2  1.11 m south after 1 s
\*   3  0.56 m north after 31 s
\*   4  1.05 m east-north-east (bearing 78 degrees) after 30 s
\*   5  0.56 m south after 1 s
Hops == << << 1, 0, 10 >>, << 1, 0, -10 >>, << 31, 0, 5 >>, << 30, 11, 2 >>,
           << 1, 0, -5 >> >>

\* the file whose fixes are joined by the hops hs, the first fix at time 0 at
\* the scene origin
\* an LLHPoint: the fix taken at the given second and place, with a height in
\* tenths of a millimetre and a quality flag (1 = fix, 2 = float)
PointAt(timestamp, lon, lat) ==
    [timestamp |-> timestamp, lon |-> lon, lat |-> lat,
     height |-> 31234 + ((7 * timestamp) % 400),
     quality |-> IF timestamp % 3 = 2 THEN 2 ELSE 1]

RECURSIVE PointsOfHops(_, _)
PointsOfHops(first, hs) ==
    IF hs = << >> THEN << first >>
    ELSE << first >> \o
         PointsOfHops(PointAt(first.timestamp + Hops[Head(hs)][1],
                              first.lon + Hops[Head(hs)][2],
                              first.lat + Hops[Head(hs)][3]), Tail(hs))

HopLists == UNION { [1 .. n -> DOMAIN Hops] : n \in 0 .. MaxPoints - 1 }

\* a pause of 31 s after the first fix, then eleven walks of one step north,
\* each followed by a step back south: 23 fixes
ZigZag == << 3 >> \o [k \in 1 .. 21 |-> IF k % 2 = 1 THEN 1 ELSE 2]

SegmentInputs ==
    { << >> } \cup
    { PointsOfHops(PointAt(0, LON0, LAT0), hs) : hs \in HopLists \cup { ZigZag } }

\* ---- the function, one loop iteration a step ----

\* the call: the arguments are bound
InitSeg ==
    /\ seg_pc = "start"
    /\ llh_file \in SegmentInputs
    /\ survey_date = 1
    /\ device_name = "SOS"
    /\ time_gap_threshold \in {30, 60}
    /\ direction_change_threshold \in {45, 90}
    /\ min_points_per_transect \in {2, 3}
    /\ point_no = 0
    /\ current_segment = << >>
    /\ previous_bearing = None
    /\ transects = << >>
    /\ InitGeomIdle
    /\ InitSurveysIdle
    /\ InitPipeIdle
    /\ InitGenIdle

\* lines 208-213
SegmentStart ==
    /\ seg_pc = "start"
    /\ IF llh_file = << >>
       THEN /\ seg_pc' = "done"
            /\ UNCHANGED << current_segment, point_no >>
       ELSE /\ seg_pc' = "loop"
            /\ current_segment' = << llh_file[1] >>
            /\ point_no' = 2
    /\ transects' = << >>
    /\ previous_bearing' = None
    /\ UNCHANGED << llh_file, survey_date, device_name, time_gap_threshold, direction_change_threshold,
                    min_points_per_transect >>
    /\ UNCHANGED geom_vars
    /\ UNCHANGED survey_vars
    /\ UNCHANGED pipe_vars
    /\ UNCHANGED gen_vars

\* lines 215-259: one iteration of the loop, curr_point = llh_file[point_no]
SegmentStep ==
    /\ seg_pc = "loop"
    /\ point_no <= Len(llh_file)
    /\ LET prev_point == llh_file[point_no - 1]
           curr_point == llh_file[point_no]
       IN  IF EndsSegment(point_no, previous_bearing)
           THEN /\ transects' = AppendTransect(transects, current_segment,
                                               min_points_per_transect)
                /\ current_segment' = StartSegment(prev_point, curr_point)
                /\ previous_bearing' = None
           ELSE /\ previous_bearing' =
                      IF FarEnough(PointDistance(prev_point, curr_point))
                      THEN Bearing(calculate_bearing(prev_point.lat, prev_point.lon,
                                                     curr_point.lat, curr_point.lon))
                      ELSE previous_bearing
                /\ current_segment' = Append(current_segment, curr_point)
                /\ UNCHANGED transects
    /\ point_no' = point_no + 1
    /\ UNCHANGED << seg_pc, llh_file, survey_date, device_name, time_gap_threshold,
                    direction_change_threshold, min_points_per_transect >>
    /\ UNCHANGED geom_vars
    /\ UNCHANGED survey_vars
    /\ UNCHANGED pipe_vars
    /\ UNCHANGED gen_vars

\* lines 261-267: the final segment, and the return
SegmentReturn ==
    /\ seg_pc = "loop"
    /\ point_no > Len(llh_file)
    /\ seg_pc' = "done"
    /\ transects' = AppendTransect(transects, current_segment, min_points_per_transect)
    /\ UNCHANGED << llh_file, survey_date, device_name, time_gap_threshold, direction_change_threshold,
                    min_points_per_transect, point_no, current_segment,
                    previous_bearing >>
    /\ UNCHANGED geom_vars
    /\ UNCHANGED survey_vars
    /\ UNCHANGED pipe_vars
    /\ UNCHANGED gen_vars

NextSeg == SegmentStart \/ SegmentStep \/ SegmentReturn

SpecSeg == InitSeg /\ [][NextSeg]_vars

-----------------------------------------------------------------------------
(* The script generate_transects.py: lines 111-136 and 297-342.  Every file *)
(* is segmented with the default arguments of lines 188-190.                *)

DEFAULT_TIME_GAP == 30
DEFAULT_DIRECTION_CHANGE == 90
DEFAULT_MIN_POINTS == 50

\* variant: the lengths of the steps, neither accumulated nor led by 0.0
ProfileStepLengths(points, i, distances) ==
    [k \in 1 .. Len(points) - 1 |-> PointDistance(points[k], points[k + 1])] \o << >>

\* Transect.to_profile_data, lines 116-127: the loop from index i on, with
\* the distances appended so far
RECURSIVE ProfileDistances(_, _, _)
ProfileDistances(points, i, distances) ==
    IF i > Len(points) THEN distances
    ELSE ProfileDistances(points, i + 1,
             Append(distances,
                    distances[Len(distances)] + PointDistance(points[i - 1], points[i])))

\* Transect.to_profile_data, lines 111-136; distances in millimetres
to_profile_data(transect) ==
    [transect_id |-> transect.transect_id,
     survey_date |-> DateStr(transect.survey_date),
     distances |-> ProfileDistances(transect.points, 2, << 0 >>),
     elevations |-> << transect.points[1].height >>
                    \o [i \in 1 .. Len(transect.points) - 1 |-> transect.points[i + 1].height],
     qualities |-> << transect.points[1].quality >>
                   \o [i \in 1 .. Len(transect.points) - 1 |-> transect.points[i + 1].quality],
     coordinates |-> [i \in 1 .. Len(transect.points) |->
                         << transect.points[i].lon, transect.points[i].lat >>] \o << >>]

\* generate_profile_data, lines 307-312: one file per transect, named by its
\* id; a file written again holds what was written last
generate_profile_data(list) ==
    [name \in { list[k].transect_id : k \in DOMAIN list } |->
        LET last == CHOOSE k \in DOMAIN list :
                        /\ list[k].transect_id = name
                        /\ \A j \in DOMAIN list : list[j].transect_id = name => j <= k
        IN  to_profile_data(list[last])]

\* n fixes that follow the fix first, each one hop after the one before
Leg(first, n, hop) ==
    [k \in 1 .. n |-> PointAt(first.timestamp + k * hop[1], first.lon + k * hop[2],
                              first.lat + k * hop[3])] \o << >>

\* The files of the data directory, in the order of their names:
\*   1  day 1, a walk north of 50 fixes and back south over 50 fixes
\*   2  day 1, same device: 20 fixes, a pause of 31 s, 51 fixes
\*   3  day 1, same device: a walk of 30 fixes
\*   4  day 2: a walk north of 51 fixes
\*   5  day 2, another device: the same walk
SurveyFiles ==
    LET origin == PointAt(0, LON0, LAT0)
        north50 == << origin >> \o Leg(origin, 49, Hops[1])
        north20 == << origin >> \o Leg(origin, 19, Hops[1])
        paused == north20 \o Leg(north20[20], 1, Hops[3])
    IN  << [survey_date |-> 1, device_name |-> "SOS",
            points |-> north50 \o Leg(north50[50], 50, Hops[2])],
           [survey_date |-> 1, device_name |-> "SOS",
            points |-> paused \o Leg(paused[21], 50, Hops[1])],
           [survey_date |-> 1, device_name |-> "SOS",
            points |-> << origin >> \o Leg(origin, 29, Hops[1])],
           [survey_date |-> 2, device_name |-> "SOS",
            points |-> north50 \o Leg(north50[50], 1, Hops[1])],
           [survey_date |-> 2, device_name |-> "TOP",
            points |-> north50 \o Leg(north50[50], 1, Hops[1])] >>

\* line 327: the data directory holds no file, one file or two files
InitGen ==
    /\ llh_files_in \in
          { << >> } \cup { << SurveyFiles[i] >> : i \in DOMAIN SurveyFiles }
          \cup { << SurveyFiles[ij[1]], SurveyFiles[ij[2]] >> :
                   ij \in { p \in (DOMAIN SurveyFiles) \X (DOMAIN SurveyFiles) : p[1] < p[2] } }
    /\ file_no = 0
    /\ all_transects = << >>
    /\ profile_files = EmptyDict
    /\ InitSegIdle
    /\ InitGeomIdle
    /\ InitSurveysIdle
    /\ InitPipeIdle

\* lines 331-332: the loop takes the next file and calls
\* segment_points_into_transects with the default arguments
CallSegment ==
    /\ seg_pc = "idle"
    /\ file_no < Len(llh_files_in)
    /\ file_no' = file_no + 1
    /\ seg_pc' = "start"
    /\ llh_file' = llh_files_in[file_no + 1].points
    /\ survey_date' = llh_files_in[file_no + 1].survey_date
    /\ device_name' = llh_files_in[file_no + 1].device_name
    /\ time_gap_threshold' = DEFAULT_TIME_GAP
    /\ direction_change_threshold' = DEFAULT_DIRECTION_CHANGE
    /\ min_points_per_transect' = DEFAULT_MIN_POINTS
    /\ UNCHANGED << point_no, current_segment, previous_bearing, transects,
                    llh_files_in, all_transects, profile_files >>
    /\ UNCHANGED geom_vars
    /\ UNCHANGED survey_vars
    /\ UNCHANGED pipe_vars

\* line 333: all_transects.extend(transects), once the call has returned
ExtendTransects ==
    /\ seg_pc = "done"
    /\ file_no >= 1
    /\ seg_pc' = "idle"
    /\ all_transects' = all_transects \o transects
    /\ UNCHANGED << llh_file, survey_date, device_name, time_gap_threshold,
                    direction_change_threshold, min_points_per_transect, point_no,
                    current_segment, previous_bearing, transects, llh_files_in,
                    file_no, profile_files >>
    /\ UNCHANGED geom_vars
    /\ UNCHANGED survey_vars
    /\ UNCHANGED pipe_vars

\* lines 339-340: the outputs are written once the loop is over
WriteOutputs ==
    /\ seg_pc = "idle"
    /\ file_no = Len(llh_files_in)
    /\ seg_pc' = "written"
    /\ profile_files' = generate_profile_data(all_transects)
    /\ UNCHANGED << llh_file, survey_date, device_name, time_gap_threshold,
                    direction_change_threshold, min_points_per_transect, point_no,
                    current_segment, previous_bearing, transects, llh_files_in,
                    file_no, all_transects >>
    /\ UNCHANGED geom_vars
    /\ UNCHANGED survey_vars
    /\ UNCHANGED pipe_vars

NextGen ==
    CallSegment \/ SegmentStart \/ SegmentStep \/ SegmentReturn \/ ExtendTransects
    \/ WriteOutputs

SpecGen == InitGen /\ [][NextGen]_vars

-----------------------------------------------------------------------------
(* The reduction of compute_transect_timeseries on its own: lines 185-220,  *)
(* applied to the points collected for one date.                            *)

\* largest number of points of the date near the start of the line
MaxNear == 4

\* an entry of points_by_date[date]: distance in centimetres, elevation in
\* millimetres
Entry(distance, elevation) ==
    [distance |-> distance, elevation |-> elevation, quality |-> 1, perp_distance |-> 0]

\* the points near the start of the line: four at the start and one 0.5 m
\* along
NearEntries ==
    { Entry(0, 23040), Entry(0, 23009), Entry(0, 22693), Entry(0, 22876),
      Entry(50, 22693) }

\* five points that stand a metre apart further along the line
FarEntries == [i \in 1 .. 5 |-> Entry(100 + 100 * i, 3000 + i)]

ReduceInputs ==
    { near \o FarEntries : near \in UNION { [1 .. n -> NearEntries] : n \in 0 .. MaxNear } }

InitReduce ==
    /\ pc = "reduce"
    /\ points_by_date \in { [d \in { DateStr(1) } |-> points] : points \in ReduceInputs }
    /\ ts_data = None
    /\ llh_files = << >>
    /\ all_points = << >>
    /\ spatial_index = EmptyDict
    /\ feature_no = 0
    /\ processed = {}
    /\ timeseries_data = EmptyDict
    /\ all_points_by_date = EmptyDict
    /\ mop_no = 0
    /\ mop_ts = None
    /\ mop_data = EmptyDict
    /\ InitGeomIdle
    /\ InitSurveysIdle
    /\ InitSegIdle
    /\ InitGenIdle

\* lines 185-220: the profiles of the dates, and the record returned
ReduceByDate ==
    /\ pc = "reduce"
    /\ pc' = "reduced"
    /\ ts_data' = TimeseriesRecord(FEATURES[1], Timeseries(points_by_date))
    /\ UNCHANGED << llh_files, all_points, spatial_index, feature_no, processed,
                    points_by_date, timeseries_data, all_points_by_date, mop_no,
                    mop_ts, mop_data >>
    /\ UNCHANGED geom_vars
    /\ UNCHANGED survey_vars
    /\ UNCHANGED seg_vars
    /\ UNCHANGED gen_vars

NextReduce == ReduceByDate

SpecReduce == InitReduce /\ [][NextReduce]_vars

-----------------------------------------------------------------------------
(* Properties of segment_points_into_transects, checked under SpecSeg       *)

\* a loop iteration is being taken
LoopStep == seg_pc = "loop" /\ point_no' = point_no + 1

\* the seconds between llh_file[i - 1] and llh_file[i]
GapBefore(i) == llh_file[i].timestamp - llh_file[i - 1].timestamp

\* the bearing of the step into llh_file[i] turns away from the bearing
\* recorded before it by more than the threshold
TurnsAt(i, previous) ==
    /\ PointDistance(llh_file[i - 1], llh_file[i]) > MIN_BEARING_DIST
    /\ previous # None
    /\ BearingDiff(calculate_bearing(llh_file[i - 1].lat, llh_file[i - 1].lon,
                                     llh_file[i].lat, llh_file[i].lon),
                   previous.degrees) > direction_change_threshold

\* no two consecutive points of the list are more than the threshold apart
NoGapInside(points) ==
    \A k \in 2 .. Len(points) :
        points[k].timestamp - points[k - 1].timestamp <= time_gap_threshold

\* the position in the file of a point (the timestamps of a file differ)
PositionOf(point) == CHOOSE i \in DOMAIN llh_file : llh_file[i] = point

\* C18: a new segment starts at point i whenever the gap between points i-1
\* and i is strictly greater than time_gap_threshold; a gap less than or equal
\* to the threshold does not split by itself (the segment goes on unless the
\* walk turns); no emitted transect, and no segment being built, holds two
\* consecutive points more than time_gap_threshold seconds apart.
C18_TimeGapSplits ==
    [][/\ LoopStep =>
            /\ GapBefore(point_no) > time_gap_threshold
                  => current_segment' = << llh_file[point_no] >>
            /\ (GapBefore(point_no) <= time_gap_threshold
                /\ ~TurnsAt(point_no, previous_bearing))
                  => current_segment' = Append(current_segment, llh_file[point_no])
       /\ NoGapInside(current_segment')
       /\ \A k \in DOMAIN transects' : NoGapInside(transects'[k].points)]_vars

\* the function has returned two transects that a gap longer than the
\* threshold separates, one of them holding a gap equal to the threshold
C18_Witness ==
    /\ seg_pc = "done"
    /\ \E k \in 1 .. Len(transects) - 1 :
          LET last == PositionOf(transects[k].points[Len(transects[k].points)])
          IN  /\ transects[k + 1].points[1] = llh_file[last + 1]
              /\ GapBefore(last + 1) > time_gap_threshold
    /\ \E k \in DOMAIN transects : \E j \in 2 .. Len(transects[k].points) :
          transects[k].points[j].timestamp - transects[k].points[j - 1].timestamp
              = time_gap_threshold

\* C19: every transect returned has at least min_points_per_transect points:
\* a segment that ends, in the loop or at the end of the file, is appended
\* when it has that many points and discarded otherwise; a file with no
\* points returns the empty list.
C19_MinimumPoints ==
    [][/\ \A k \in DOMAIN transects' :
              /\ Len(transects'[k].points) >= min_points_per_transect
              /\ transects'[k].transect_no = k
       /\ (seg_pc = "loop" /\ (seg_pc' = "done" \/ Len(current_segment') = 1))
              => IF Len(current_segment) >= min_points_per_transect
                 THEN /\ Len(transects') = Len(transects) + 1
                      /\ transects'[Len(transects')].points = current_segment
                      /\ SubSeq(transects', 1, Len(transects)) = transects
                 ELSE transects' = transects
       /\ (seg_pc = "loop" /\ seg_pc' = "loop" /\ Len(current_segment') > 1)
              => transects' = transects
       /\ (seg_pc' = "done" /\ llh_file = << >>) => transects' = << >>]_vars

\* the function has returned a transect, after it discarded a shorter segment
\* at the start of the file and one at the end
C19_Witness ==
    /\ seg_pc = "done"
    /\ Len(transects) >= 1
    /\ PositionOf(transects[1].points[1]) > 1
    /\ PositionOf(transects[Len(transects)].points[Len(transects[Len(transects)].points)])
          < Len(llh_file)

\* the positions k of the list whose step from the point before is longer
\* than 1 m, in ascending order
FarSteps(points) ==
    SelectSeq(Indices(Len(points)),
              LAMBDA k : k >= 2 /\ PointDistance(points[k - 1], points[k]) > MIN_BEARING_DIST)

StepBearing(points, k) ==
    calculate_bearing(points[k - 1].lat, points[k - 1].lon, points[k].lat, points[k].lon)

\* the successive bearings recorded within the list differ by at most the
\* threshold
NoTurnInside(points) ==
    LET far == FarSteps(points)
    IN  \A n \in 2 .. Len(far) :
            BearingDiff(StepBearing(points, far[n]), StepBearing(points, far[n - 1]))
                <= direction_change_threshold

\* C20: a bearing is computed, and recorded, only for a step longer than 1 m;
\* when it differs from the bearing recorded before it in the same segment by
\* more than direction_change_threshold (the difference folded into 0..180)
\* the segment ends, the current point starts the next segment and the
\* recorded bearing is reset; within an emitted transect, and within the
\* segment being built, no two successive recorded bearings differ by more
\* than the threshold.
C20_TurnAroundSplits ==
    [][/\ (LoopStep /\ GapBefore(point_no) <= time_gap_threshold) =>
            /\ PointDistance(llh_file[point_no - 1], llh_file[point_no]) <= MIN_BEARING_DIST
                  => /\ previous_bearing' = previous_bearing
                     /\ current_segment' = Append(current_segment, llh_file[point_no])
            /\ TurnsAt(point_no, previous_bearing)
                  => /\ current_segment' = << llh_file[point_no] >>
                     /\ previous_bearing' = None
            /\ (PointDistance(llh_file[point_no - 1], llh_file[point_no]) > MIN_BEARING_DIST
                /\ ~TurnsAt(point_no, previous_bearing))
                  => /\ previous_bearing' =
                            Bearing(StepBearing(llh_file, point_no))
                     /\ current_segment' = Append(current_segment, llh_file[point_no])
       /\ NoTurnInside(current_segment')
       /\ \A k \in DOMAIN transects' : NoTurnInside(transects'[k].points)]_vars

\* the function has returned two transects that a turn separates (the gap
\* between them is within the threshold), the first one holding two recorded
\* bearings that differ
C20_Witness ==
    /\ seg_pc = "done"
    /\ \E k \in 1 .. Len(transects) - 1 :
          LET points == transects[k].points
              last == PositionOf(points[Len(points)])
              far == FarSteps(points)
          IN  /\ transects[k + 1].points[1] = llh_file[last + 1]
              /\ GapBefore(last + 1) <= time_gap_threshold
              /\ Len(far) >= 2
              /\ StepBearing(points, far[1]) # StepBearing(points, far[2])


\* C25: within one call the k-th emitted transect has the id
\* <YYYYMMDD of the survey date>_<device name>_T<k, zero-padded to 3 digits>:
\* the numbers are consecutive in emission order, a discarded segment takes no
\* number, and the ids of one call differ from each other.
C25_ConsecutiveIds ==
    /\ \A k \in DOMAIN transects :
          transects[k].transect_id =
              "2024010" \o ToString(survey_date) \o "_" \o device_name \o "_T"
              \o (IF k < 10 THEN "00" ELSE "0") \o ToString(k)
    /\ \A j \in DOMAIN transects : \A k \in DOMAIN transects :
          j # k => transects[j].transect_id # transects[k].transect_id

\* the function has returned ten transects or more, after it discarded the
\* segment that the file starts with
C25_Witness ==
    /\ seg_pc = "done"
    /\ Len(transects) >= 10
    /\ PositionOf(transects[1].points[1]) > 1

\* the positions in the file of the first and of the last point of a list
FirstPosition(points) == PositionOf(points[1])

LastPosition(points) == PositionOf(points[Len(points)])

\* the list is a run of consecutive points of the file, in the file's order
ContiguousRun(points) ==
    /\ points # << >>
    /\ points = SubSeq(llh_file, FirstPosition(points), FirstPosition(points) + Len(points) - 1)

\* The emitted transects and the segment being built are contiguous runs of
\* the file that follow each other in the file's order without overlapping,
\* the segment being built ends at the last point read, and the emitted
\* transects hold no more points than the file.
SegmentsPartition ==
    seg_pc \in {"loop", "done"} /\ llh_file # << >> =>
        /\ ContiguousRun(current_segment)
        /\ LastPosition(current_segment) = point_no - 1
        /\ \A k \in DOMAIN transects : ContiguousRun(transects[k].points)
        /\ \A k \in 1 .. Len(transects) - 1 :
              LastPosition(transects[k].points) < FirstPosition(transects[k + 1].points)
        /\ \A k \in DOMAIN transects :
              \/ LastPosition(transects[k].points) < FirstPosition(current_segment)
              \/ /\ seg_pc = "done"
                 /\ k = Len(transects)
                 /\ transects[k].points = current_segment
        /\ SeqSum([k \in DOMAIN transects |-> << Len(transects[k].points) >>], 1) <= Len(llh_file)

-----------------------------------------------------------------------------
(* Properties of the script generate_transects.py, checked under SpecGen    *)

\* C21: to_profile_data returns distances, elevations, qualities and
\* coordinates lists with one entry per point of the transect; distances[0]
\* is 0 and every later distance is the one before it plus the length of the
\* step, which is not negative, so the distances never decrease.
C21_ProfileDataLists ==
    \A name \in DOMAIN profile_files :
        LET profile == profile_files[name]
        IN  /\ \E k \in DOMAIN all_transects :
                  LET points == all_transects[k].points
                  IN  /\ all_transects[k].transect_id = name
                      /\ Len(profile.distances) = Len(points)
                      /\ Len(profile.elevations) = Len(points)
                      /\ Len(profile.qualities) = Len(points)
                      /\ Len(profile.coordinates) = Len(points)
                      /\ \A i \in DOMAIN points :
                            /\ profile.elevations[i] = points[i].height
                            /\ profile.qualities[i] = points[i].quality
                            /\ profile.coordinates[i] = << points[i].lon, points[i].lat >>
                      /\ \A i \in 2 .. Len(points) :
                            profile.distances[i] =
                                profile.distances[i - 1]
                                + PointDistance(points[i - 1], points[i])
            /\ profile.distances[1] = 0
            /\ \A i \in 2 .. Len(profile.distances) :
                  profile.distances[i] >= profile.distances[i - 1]

\* the profile of a transect of at least 50 points has been written
C21_Witness ==
    /\ seg_pc = "written"
    /\ \E name \in DOMAIN profile_files :
          /\ Len(profile_files[name].distances) >= DEFAULT_MIN_POINTS
          /\ profile_files[name].distances[Len(profile_files[name].distances)] > 50000
          /\ \E i \in DOMAIN profile_files[name].qualities :
                profile_files[name].qualities[i] = 2

\* C30: across a whole run the transect ids are unique: no two transects of
\* the processed files share a transect_id, two files of the same survey date
\* and device included, so every transect has a profile file of its own.
C30_IdsUniqueAcrossRun ==
    /\ \A j \in DOMAIN all_transects : \A k \in DOMAIN all_transects :
          j # k => all_transects[j].transect_id # all_transects[k].transect_id
    /\ seg_pc = "written" =>
          \A k \in DOMAIN all_transects :
              profile_files[all_transects[k].transect_id]
                  = to_profile_data(all_transects[k])

-----------------------------------------------------------------------------
(* Properties of the reduction, checked under SpecReduce                    *)

\* the end of the group that starts at sorted_points[i] when a point opens a
\* new group only if it lies more than 0.5 m beyond the first member
EndBeyondHalfMetre(sorted_points, i) ==
    LET beyond == { j \in i + 1 .. Len(sorted_points) :
                      sorted_points[j].distance - sorted_points[i].distance > GROUP_WIDTH }
    IN  IF beyond = {} THEN Len(sorted_points) + 1 ELSE SetMin(beyond)

RECURSIVE MergeBeyondHalfMetre(_, _)
MergeBeyondHalfMetre(sorted_points, i) ==
    IF i > Len(sorted_points) THEN << >>
    ELSE << GroupEntry(SubSeq(sorted_points, i, EndBeyondHalfMetre(sorted_points, i) - 1)) >>
         \o MergeBeyondHalfMetre(sorted_points, EndBeyondHalfMetre(sorted_points, i))

\* C24: scanning a date's points in ascending distance, a new group starts
\* exactly when the next point lies more than 0.5 m beyond the first member
\* of the current group; a point exactly 0.5 m beyond it stays in the group.
C24_MergeBeyondHalfMetre ==
    pc = "reduced" =>
        \A d \in DOMAIN points_by_date :
            /\ d \in DOMAIN ts_data.timeseries
            /\ ts_data.timeseries[d] =
                  TransectProfile(MergeBeyondHalfMetre(SortByDistance(points_by_date[d]), 1))

\* the list with the entries at positions i and i + 1 exchanged
SwapAt(points, i) ==
    [k \in DOMAIN points |->
        IF k = i THEN points[i + 1] ELSE IF k = i + 1 THEN points[i] ELSE points[k]]

\* C26: the profiles do not depend on the order of the input: the same points
\* of a date given in another order (any order is reached by exchanging
\* neighbours) yield the same distances and elevations lists.
C26_OrderIndependent ==
    pc = "reduced" =>
        \A d \in DOMAIN points_by_date :
            \A i \in 1 .. Len(points_by_date[d]) - 1 :
                Timeseries([x \in { d } |-> SwapAt(points_by_date[d], i)])
                    = ts_data.timeseries

-----------------------------------------------------------------------------
(* process_surveys.py: aggregate_surveys_by_date and generate_survey_metadata *)

\* A str is the tuple of the code points of its characters, so that sorted()
\* compares the keys as Python compares strings. A dict is the sequence of
\* its items in insertion order, which is the order Python iterates it in.

\* the decimal digits of n without padding
RECURSIVE Decimal(_)
Decimal(n) == IF n < 10 THEN << 48 + n >> ELSE Append(Decimal(n \div 10), 48 + (n % 10))

\* %m and %d: two digits, zero padded
TwoDigits(n) == << 48 + (n \div 10), 48 + (n % 10) >>

\* line 44: llh_file.survey_date.strftime('%Y-%m-%d')
strftime(date) ==
    Decimal(date.year) \o << 45 >> \o TwoDigits(date.month) \o << 45 >> \o TwoDigits(date.day)

\* str.__lt__: the first differing character decides, a proper prefix is smaller
RECURSIVE StrLess(_, _)
StrLess(a, b) ==
    IF b = << >> THEN FALSE
    ELSE IF a = << >> THEN TRUE
    ELSE IF a[1] # b[1] THEN a[1] < b[1]
    ELSE StrLess(Tail(a), Tail(b))

RECURSIVE InsertSorted(_, _)
InsertSorted(keys, key) ==
    IF keys = << >> THEN << key >>
    ELSE IF StrLess(key, keys[1]) THEN << key >> \o keys
    ELSE << keys[1] >> \o InsertSorted(Tail(keys), key)

\* sorted(keys), for keys that are str
RECURSIVE sorted(_)
sorted(keys) == IF keys = << >> THEN << >> ELSE InsertSorted(sorted(Tail(keys)), keys[1])

\* dict.keys(), key in dict, dict[key], dict.get(key, default)
DictKeys(dict) == [i \in DOMAIN dict |-> dict[i].key]
HasKey(dict, key) == \E i \in DOMAIN dict : dict[i].key = key
DictItem(dict, key) == dict[CHOOSE i \in DOMAIN dict : dict[i].key = key].value
DictGet(dict, key, default) == IF HasKey(dict, key) THEN DictItem(dict, key) ELSE default

\* dict[key] = value: a new key goes last, a known key keeps its place
DictSet(dict, key, value) ==
    IF HasKey(dict, key)
    THEN [i \in DOMAIN dict |->
            IF dict[i].key = key THEN [key |-> key, value |-> value] ELSE dict[i]]
    ELSE Append(dict, [key |-> key, value |-> value])

\* variant: surveys[date_key] = [llh_file]
DictReplace(dict, key, item) == DictSet(dict, key, << item >>)

\* line 45: surveys[date_key].append(llh_file) on a defaultdict(list)
DictAppend(dict, key, item) == DictSet(dict, key, Append(DictGet(dict, key, << >>), item))

\* lines 41-47
RECURSIVE AggregateFrom(_, _, _)
AggregateFrom(by_date, files, i) ==
    IF i > Len(files) THEN by_date
    ELSE AggregateFrom(DictAppend(by_date, strftime(files[i].survey_date), files[i]),
                       files, i + 1)

aggregate_surveys_by_date(files) == AggregateFrom(<< >>, files, 1)

\* variant: the keys in the order the mapping iterates them
KeysAsGiven(by_date) == DictKeys(by_date)

\* line 66: sorted(surveys.keys())
KeysInOrder(by_date) == sorted(DictKeys(by_date))

\* lines 67-72 and 113-134: the entry of one date; of its fields the model
\* keeps date, files, total_points and total_transects
SurveyEntry(date_str, files, date_transects) ==
    [date |-> date_str,
     files |-> [i \in DOMAIN files |-> files[i].filename],
     total_points |-> SeqSum(files, "point_count"),
     total_transects |-> Len(date_transects)]

\* lines 64-134
SurveyList(by_date, by_date_transects) ==
    LET order == KeysInOrder(by_date)
    IN  [i \in DOMAIN order |->
            SurveyEntry(order[i], DictItem(by_date, order[i]),
                        DictGet(by_date_transects, order[i], << >>))]

\* lines 137-149: the metadata object (generated_at left out)
generate_survey_metadata(by_date, by_date_transects) ==
    LET survey_list == SurveyList(by_date, by_date_transects)
    IN  [surveys |-> survey_list,
         summary |->
            [total_survey_dates |-> Len(survey_list),
             date_range |->
                [start |-> IF survey_list # << >> THEN survey_list[1].date ELSE None,
                 end |-> IF survey_list # << >>
                         THEN survey_list[Len(survey_list)].date ELSE None],
             total_transects |-> SeqSum(survey_list, "total_transects"),
             total_points |-> SeqSum(survey_list, "total_points")]]

\* main lines 190-205: the transects of every date, the dates in the order of
\* surveys.items(); a file contributes the transects that
\* segment_points_into_transects made of it
RECURSIVE DateTransects(_)
DateTransects(files) ==
    IF files = << >> THEN << >>
    ELSE [t \in 1 .. files[1].transect_count |->
             [filename |-> files[1].filename, number |-> t]]
         \o DateTransects(Tail(files))

TransectsByDate(by_date) ==
    [i \in DOMAIN by_date |->
        [key |-> by_date[i].key, value |-> DateTransects(by_date[i].value)]]

\* ---- inputs ----

\* most files of one run
MaxFiles == 3

\* the survey dates a file can have
SurveyDays ==
    << [year |-> 2024, month |-> 1, day |-> 10],
       [year |-> 2024, month |-> 1, day |-> 2],
       [year |-> 2023, month |-> 12, day |-> 31],
       [year |-> 2024, month |-> 2, day |-> 1] >>

\* what a file can hold: 40 fixes in one run, too few for a transect, or 120
\* fixes in two runs of 60, which make two transects
FileSizes == << [point_count |-> 40, transect_count |-> 0],
                [point_count |-> 120, transect_count |-> 2] >>

\* the i-th file of the list, of survey day d and size z
ParsedFile(i, d, z) ==
    [filename |-> "file" \o ToString(i),
     survey_date |-> SurveyDays[d],
     point_count |-> FileSizes[z].point_count,
     transect_count |-> FileSizes[z].transect_count]

ParsedFileLists ==
    UNION { { [i \in 1 .. n |-> ParsedFile(i, choice[i][1], choice[i][2])] :
                choice \in [1 .. n -> (DOMAIN SurveyDays) \X (DOMAIN FileSizes)] } :
            n \in 0 .. MaxFiles }

\* ---- the run ----

\* the functions are called on any list of parsed files, the empty list
\* included, as the tests call them
InitSurveys ==
    /\ survey_pc = "start"
    /\ parsed_files \in ParsedFileLists
    /\ surveys = << >>
    /\ transects_by_date = << >>
    /\ metadata = None
    /\ InitGeomIdle
    /\ InitPipeIdle
    /\ InitSegIdle
    /\ InitGenIdle

\* main line 185
AggregateSurveys ==
    /\ survey_pc = "start"
    /\ survey_pc' = "aggregated"
    /\ surveys' = aggregate_surveys_by_date(parsed_files)
    /\ UNCHANGED << parsed_files, transects_by_date, metadata >>
    /\ UNCHANGED geom_vars
    /\ UNCHANGED pipe_vars
    /\ UNCHANGED seg_vars
    /\ UNCHANGED gen_vars

\* main lines 190-205
SegmentSurveys ==
    /\ survey_pc = "aggregated"
    /\ survey_pc' = "segmented"
    /\ transects_by_date' = TransectsByDate(surveys)
    /\ UNCHANGED << parsed_files, surveys, metadata >>
    /\ UNCHANGED geom_vars
    /\ UNCHANGED pipe_vars
    /\ UNCHANGED seg_vars
    /\ UNCHANGED gen_vars

\* main line 220
GenerateMetadata ==
    /\ survey_pc = "segmented"
    /\ survey_pc' = "done"
    /\ metadata' = generate_survey_metadata(surveys, transects_by_date)
    /\ UNCHANGED << parsed_files, surveys, transects_by_date >>
    /\ UNCHANGED geom_vars
    /\ UNCHANGED pipe_vars
    /\ UNCHANGED seg_vars
    /\ UNCHANGED gen_vars

NextSurveys == AggregateSurveys \/ SegmentSurveys \/ GenerateMetadata

SpecSurveys == InitSurveys /\ [][NextSurveys]_vars

-----------------------------------------------------------------------------
(* Properties of process_surveys.py, checked under SpecSurveys              *)

\* the number a run of decimal digits stands for
RECURSIVE DigitsValue(_)
DigitsValue(digits) ==
    IF digits = << >> THEN 0
    ELSE 10 * DigitsValue(SubSeq(digits, 1, Len(digits) - 1)) + (digits[Len(digits)] - 48)

IsDigits(s) == \A i \in DOMAIN s : s[i] \in 48 .. 57

\* key has the form YYYY-MM-DD
IsIsoDate(key) ==
    /\ Len(key) = 10
    /\ key[5] = 45
    /\ key[8] = 45
    /\ IsDigits(SubSeq(key, 1, 4))
    /\ IsDigits(SubSeq(key, 6, 7))
    /\ IsDigits(SubSeq(key, 9, 10))

\* the date that a key of the form YYYY-MM-DD names
DateOfKey(key) ==
    [year |-> DigitsValue(SubSeq(key, 1, 4)),
     month |-> DigitsValue(SubSeq(key, 6, 7)),
     day |-> DigitsValue(SubSeq(key, 9, 10))]

\* a number that grows with the date
DayNumber(date) == (date.year * 12 + date.month) * 31 + date.day

\* the input files of a date, in input order
FilesOfDate(date) == SelectSeq(parsed_files, LAMBDA f : f.survey_date = date)

Aggregated == survey_pc \in { "aggregated", "segmented", "done" }

\* C22: aggregate_surveys_by_date partitions its input: the keys of the result
\* are exactly the YYYY-MM-DD dates of the input files, every file is in
\* exactly one group, the group of its own date, the files of a group are in
\* input order, the group sizes sum to the number of input files, no group is
\* empty, and an empty input gives an empty mapping.
C22_AggregatePartitions ==
    Aggregated =>
        /\ \A i, j \in DOMAIN surveys : surveys[i].key = surveys[j].key => i = j
        /\ \A i \in DOMAIN surveys :
              /\ IsIsoDate(surveys[i].key)
              /\ \E f \in DOMAIN parsed_files :
                    parsed_files[f].survey_date = DateOfKey(surveys[i].key)
              /\ surveys[i].value = FilesOfDate(DateOfKey(surveys[i].key))
              /\ surveys[i].value # << >>
        /\ \A f \in DOMAIN parsed_files :
              /\ \E i \in DOMAIN surveys :
                    DateOfKey(surveys[i].key) = parsed_files[f].survey_date
              /\ Cardinality({ ik \in (DOMAIN surveys) \X (1 .. Len(parsed_files)) :
                                 /\ ik[2] <= Len(surveys[ik[1]].value)
                                 /\ surveys[ik[1]].value[ik[2]] = parsed_files[f] }) = 1
        /\ SeqSum([i \in DOMAIN surveys |-> << Len(surveys[i].value) >>], 1)
              = Len(parsed_files)
        /\ parsed_files = << >> => surveys = << >>

\* files of two dates were aggregated, the two files of one date with a file
\* of the other date between them
C22_Witness ==
    /\ survey_pc = "aggregated"
    /\ Len(surveys) = 2
    /\ Len(parsed_files) = 3
    /\ parsed_files[1].survey_date = parsed_files[3].survey_date
    /\ parsed_files[2].survey_date # parsed_files[1].survey_date
    /\ Len(surveys[1].value) = 2

\* C23: generate_survey_metadata emits one entry per date key, in ascending
\* date order whatever the order of the mapping it is given; the summary's
\* total_survey_dates is the number of entries, its total_points and
\* total_transects are the sums over the entries, the total_points of a date
\* is the sum of the point counts of its files, and date_range holds the
\* earliest and the latest date, or None twice when there are no surveys.
C23_MetadataConsistent ==
    survey_pc = "done" =>
        LET entries == metadata.surveys
            summary == metadata.summary
        IN  /\ Len(entries) = Len(surveys)
            /\ \A i \in DOMAIN surveys : \E k \in DOMAIN entries :
                  entries[k].date = surveys[i].key
            /\ \A k \in 1 .. Len(entries) - 1 :
                  DayNumber(DateOfKey(entries[k].date))
                      < DayNumber(DateOfKey(entries[k + 1].date))
            /\ \A k \in DOMAIN entries :
                  /\ entries[k].total_points
                        = SeqSum(FilesOfDate(DateOfKey(entries[k].date)), "point_count")
                  /\ entries[k].total_transects
                        = Len(DictGet(transects_by_date, entries[k].date, << >>))
            /\ summary.total_survey_dates = Len(entries)
            /\ summary.total_points = SeqSum(entries, "total_points")
            /\ summary.total_transects = SeqSum(entries, "total_transects")
            /\ IF entries = << >>
               THEN /\ summary.date_range.start = None
                    /\ summary.date_range.end = None
               ELSE /\ \E i \in DOMAIN surveys : summary.date_range.start = surveys[i].key
                    /\ \E i \in DOMAIN surveys : summary.date_range.end = surveys[i].key
                    /\ \A f \in DOMAIN parsed_files :
                          /\ DayNumber(DateOfKey(summary.date_range.start))
                                <= DayNumber(parsed_files[f].survey_date)
                          /\ DayNumber(parsed_files[f].survey_date)
                                <= DayNumber(DateOfKey(summary.date_range.end))

\* the metadata of a mapping whose keys are not in date order, one date
\* holding two files, with points and transects to sum
C23_Witness ==
    /\ survey_pc = "done"
    /\ Len(surveys) = 2
    /\ DayNumber(DateOfKey(surveys[1].key)) > DayNumber(DateOfKey(surveys[2].key))
    /\ Len(surveys[1].value) = 2
    /\ surveys[1].value[1].point_count # surveys[1].value[2].point_count
    /\ metadata.summary.total_transects > 0
    /\ metadata.summary.date_range.start # metadata.summary.date_range.end

====
